---- MODULE Spec2Model ----
(***************************************************************************)
(* The plan compiler of graph-of-plan: defineGraph (kernel/dsl.ts) turns a *)
(* declarative definition into a sequence of node instances, validatePlan  *)
(* (kernel/schema.ts) accumulates every violation, deriveRelations builds  *)
(* the reverse index keyed by node instance, and main                      *)
(* (kernel/compile/compile.ts) runs them in order.                         *)
(*                                                                         *)
(* A node instance is a position in `heap`: two instances with the same id *)
(* are different objects, exactly as two `new Milestone(...)` are.         *)
(* The reference 0 is JavaScript's null / undefined.                       *)
(* The empty id "" is JavaScript's "no id given" (undefined and "" are     *)
(* both falsy in the tests the code makes); real ids are non-empty.        *)
(***************************************************************************)
EXTENDS Integers, Sequences, FiniteSets, TLC

VARIABLES
  def,        \* the GraphDef handed to defineGraph (plan/graph.ts)
  content,    \* the content store: the set of <<kind, id>> that have an .mdx
  pc,         \* position of main in compile.ts
  heap,       \* every node instance constructed so far, by instance number
  PLAN,       \* the sequence exported by plan/graph.ts (instance numbers)
  buildError, \* the Error thrown by defineGraph, NoError when none
  validation, \* the ValidationResult of step 2
  relations,  \* the DerivedRelations of step 3
  log,        \* the steps main has run so far, in order
  exitCode    \* the status the process exited with, Running until it does

vars == <<def, content, pc, heap, PLAN, buildError, validation, relations, log, exitCode>>

\* ------------------------------------------------------------------------
\* Node model (the node classes and the relations defineGraph resolves)
\* ------------------------------------------------------------------------

\* The keys of GraphDef in the order defineGraph constructs them.
Categories ==
  << "primitives", "suppliers", "customers", "competitors",
     "supplierPrimitives", "tooling", "risks", "capabilities", "products",
     "projects", "milestones", "thesis", "repositories", "constraints",
     "proxyMetrics", "competencies", "diagnoses", "actionGates",
     "guidingPolicies", "assumptions", "decisions" >>

CategorySet == { Categories[i] : i \in 1..Len(Categories) }

\* The kind tag each class passes to super(...).
NodeKind(cat) ==
  CASE cat = "primitives" -> "primitive"
    [] cat = "suppliers" -> "supplier"
    [] cat = "customers" -> "customer"
    [] cat = "competitors" -> "competitor"
    [] cat = "supplierPrimitives" -> "supplier-primitive"
    [] cat = "tooling" -> "tooling"
    [] cat = "risks" -> "risk"
    [] cat = "capabilities" -> "capability"
    [] cat = "products" -> "product"
    [] cat = "projects" -> "project"
    [] cat = "milestones" -> "milestone"
    [] cat = "thesis" -> "thesis"
    [] cat = "repositories" -> "repository"
    [] cat = "constraints" -> "constraint"
    [] cat = "proxyMetrics" -> "proxy-metric"
    [] cat = "competencies" -> "competency"
    [] cat = "diagnoses" -> "diagnosis"
    [] cat = "actionGates" -> "action-gate"
    [] cat = "guidingPolicies" -> "guiding-policy"
    [] cat = "assumptions" -> "assumption"
    [] cat = "decisions" -> "decision"

\* The class name defineGraph puts at the start of its error messages.
ErrorLabel(cat) ==
  CASE cat = "supplierPrimitives" -> "SupplierPrimitive"
    [] cat = "tooling" -> "Tooling"
    [] cat = "risks" -> "Risk"
    [] cat = "capabilities" -> "Capability"
    [] cat = "products" -> "Product"
    [] cat = "projects" -> "Project"
    [] cat = "milestones" -> "Milestone"
    [] cat = "thesis" -> "Thesis"
    [] cat = "repositories" -> "Repository"
    [] cat = "competencies" -> "Competency"
    [] cat = "diagnoses" -> "Diagnosis"
    [] cat = "actionGates" -> "ActionGate"
    [] cat = "guidingPolicies" -> "GuidingPolicy"
    [] cat = "assumptions" -> "Assumption"
    [] cat = "decisions" -> "Decision"
    [] OTHER -> "Leaf"

\* One relation field of a definition entry: the field, the category whose
\* map it is resolved in, the noun of the error message and its suffix.
\* mode "list" is an array of ids, "required" a single id that is always
\* looked up, "optional" a single id that is looked up only when truthy.
Rel(f, t, w, sfx, m) ==
  [field |-> f, target |-> t, what |-> w, suffix |-> sfx, mode |-> m]

\* The relations resolved when an entry is first constructed, in the order
\* the code resolves them (the first unresolved one throws).
Pass1Fields(cat) ==
  CASE cat = "supplierPrimitives" ->
         << Rel("supplier", "suppliers", "supplier", "", "required") >>
    [] cat = "tooling" ->
         << Rel("dependsOn", "primitives", "primitive", "", "list"),
            Rel("supplierPrimitives", "supplierPrimitives", "supplier primitive", "", "list") >>
    [] cat = "risks" ->
         << Rel("mitigatedBy", "primitives", "primitive", "", "list") >>
    [] cat = "capabilities" ->
         << Rel("dependsOn", "primitives", "primitive", "", "list"),
            Rel("supplierPrimitives", "supplierPrimitives", "supplier primitive", "", "list"),
            Rel("tooling", "tooling", "tooling", "", "list"),
            Rel("risks", "risks", "risk", "", "list"),
            Rel("suppliers", "suppliers", "supplier", "", "list") >>
    [] cat = "products" ->
         << Rel("enabledBy", "capabilities", "capability", "", "list"),
            Rel("customers", "customers", "customer", "", "list"),
            Rel("competitors", "competitors", "competitor", "", "list"),
            Rel("tooling", "tooling", "tooling", "", "list") >>
    [] cat = "projects" ->
         << Rel("enabledBy", "capabilities", "capability", "", "list"),
            Rel("tooling", "tooling", "tooling", "", "list") >>
    [] cat = "milestones" ->
         << Rel("dependsOnCapabilities", "capabilities", "capability", "", "list"),
            Rel("products", "products", "product", "", "list") >>
    [] cat = "thesis" ->
         << Rel("justifiedBy", "capabilities", "capability", "", "list") >>
    [] cat = "repositories" ->
         << Rel("products", "products", "product", "", "list"),
            Rel("capabilities", "capabilities", "capability", "", "list") >>
    [] cat = "competencies" ->
         << Rel("evidencedBy", "repositories", "repository", "", "list") >>
    [] cat = "diagnoses" ->
         << Rel("evidencedBy", "risks", "risk", "", "list"),
            Rel("constrainedBy", "constraints", "constraint", "", "list") >>
    [] cat = "actionGates" ->
         << Rel("proxyMetrics", "proxyMetrics", "proxy metric", "", "list") >>
    [] cat = "guidingPolicies" ->
         << Rel("addressesDiagnosis", "diagnoses", "diagnosis", "", "required"),
            Rel("leveragesCompetencies", "competencies", "competency", "", "list"),
            Rel("worksAroundConstraints", "constraints", "constraint", "", "list") >>
    [] cat = "assumptions" ->
         << Rel("dependentProducts", "products", "product", "", "list"),
            Rel("dependentMilestones", "milestones", "milestone", "", "list"),
            Rel("relatedRisks", "risks", "risk", "", "list") >>
    [] cat = "decisions" ->
         << Rel("dependsOnAssumptions", "assumptions", "assumption", "", "list"),
            Rel("affectedProducts", "products", "product", "", "list"),
            Rel("affectedMilestones", "milestones", "milestone", "", "list") >>
    [] OTHER -> << >>

\* The same-kind relations, stored aside in pass 1 and resolved in pass 2.
Pass2Fields(cat) ==
  CASE cat = "milestones" ->
         << Rel("dependsOnMilestones", "milestones", "milestone", "", "list") >>
    [] cat = "repositories" ->
         << Rel("dependsOn", "repositories", "repository", "", "list"),
            Rel("upstream", "repositories", "upstream repository", "", "optional") >>
    [] cat = "actionGates" ->
         << Rel("blockedBy", "actionGates", "action gate", " in blockedBy", "list"),
            Rel("unlocks", "actionGates", "action gate", " in unlocks", "list") >>
    [] cat = "decisions" ->
         << Rel("supersededBy", "decisions", "decision", " in supersededBy", "optional") >>
    [] OTHER -> << >>

\* Milestone.gatedBy, resolved in phase 17 once the action gates exist.
GatedByFields(cat) ==
  IF cat = "milestones"
  THEN << Rel("gatedBy", "actionGates", "action gate", " in gatedBy", "list") >>
  ELSE << >>

\* Every relation field a node of this category carries.
RelationFields(cat) == Pass1Fields(cat) \o Pass2Fields(cat) \o GatedByFields(cat)

\* ------------------------------------------------------------------------
\* Graph Builder (kernel/dsl.ts, defineGraph)
\* ------------------------------------------------------------------------

\* A Map<string, Node> is the sequence of its entries in insertion order.
\* Map.get: the instance stored under the id, 0 (undefined) when absent.
MapGet(m, id) ==
  IF \E i \in 1..Len(m) : m[i].id = id
  THEN m[CHOOSE i \in 1..Len(m) : m[i].id = id].ref
  ELSE 0

\* A set that always appends, also under a key the map holds already.
MapSetAppend(m, id, ref) == Append(m, [id |-> id, ref |-> ref])

\* Map.set: a new key is appended; an existing key keeps its position and
\* gets the new value.
MapSet(m, id, ref) ==
  IF \E i \in 1..Len(m) : m[i].id = id
  THEN [i \in 1..Len(m) |-> IF m[i].id = id THEN [id |-> id, ref |-> ref] ELSE m[i]]
  ELSE Append(m, [id |-> id, ref |-> ref])

\* Map.values(): the instances in insertion order.
MapValues(m) == [i \in 1..Len(m) |-> m[i].ref]

NoError == [label |-> "", id |-> "", what |-> "", ref |-> "", suffix |-> ""]

\* new Error(`${label} "${id}" references unknown ${what} "${ref}"${suffix}`)
UnknownReference(cat, id, d, ref) ==
  [label |-> ErrorLabel(cat), id |-> id, what |-> d.what, ref |-> ref, suffix |-> d.suffix]

\* The ids an entry gives for a list relation (`?? []` when omitted) and
\* the id it gives for a single relation ("" when omitted).
ListIds(e, d) == IF d.field \in DOMAIN e.r THEN e.r[d.field] ELSE << >>

SingleId(e, d) == IF d.field \in DOMAIN e.r THEN e.r[d.field] ELSE ""

\* A lookup that returns the instances last id first.
LookupAllReversed(m, ids) == [i \in 1..Len(ids) |-> MapGet(m, ids[Len(ids) + 1 - i])]

\* ids.map(id => map.get(id) ...) : the instances, in the order of the ids.
LookupAll(m, ids) == [i \in 1..Len(ids) |-> MapGet(m, ids[i])]

\* The first id of the list that the map does not hold ("" when all resolve):
\* the callback of ids.map throws on it.
FirstUnknown(m, ids) ==
  IF \E i \in 1..Len(ids) : MapGet(m, ids[i]) = 0
  THEN ids[CHOOSE i \in 1..Len(ids) :
              /\ MapGet(m, ids[i]) = 0
              /\ \A j \in 1..(i - 1) : MapGet(m, ids[j]) # 0]
  ELSE ""

\* A resolution that throws for the required single references only and
\* lets an unknown id of a list or of an optional reference pass.
ThrowsOnRequiredOnly(maps, e, d) ==
  d.mode = "required" /\ MapGet(maps[d.target], SingleId(e, d)) = 0

\* Does resolving relation d of entry e throw with the maps as they are?
Throws(maps, e, d) ==
  CASE d.mode = "list" ->
         \E i \in 1..Len(ListIds(e, d)) : MapGet(maps[d.target], ListIds(e, d)[i]) = 0
    [] d.mode = "required" -> MapGet(maps[d.target], SingleId(e, d)) = 0
    [] d.mode = "optional" ->
         SingleId(e, d) # "" /\ MapGet(maps[d.target], SingleId(e, d)) = 0

\* The id named by the error of a resolution that throws.
ThrownRef(maps, e, d) ==
  IF d.mode = "list" THEN FirstUnknown(maps[d.target], ListIds(e, d)) ELSE SingleId(e, d)

\* The value the relation field gets when the resolution succeeds.
Resolved(maps, e, d) ==
  CASE d.mode = "list" -> LookupAll(maps[d.target], ListIds(e, d))
    [] d.mode = "required" -> MapGet(maps[d.target], SingleId(e, d))
    [] d.mode = "optional" ->
         IF SingleId(e, d) # "" THEN MapGet(maps[d.target], SingleId(e, d)) ELSE 0

\* The placeholder a relation holds until its pass resolves it.
Placeholder(d) == IF d.mode = "list" THEN << >> ELSE 0

\* The relations ds of entry e, resolved in order into the record rel; the
\* first one that throws ends the resolution with its error.
RECURSIVE ResolveFields(_, _, _, _, _, _)
ResolveFields(maps, cat, e, ds, i, rel) ==
  IF i > Len(ds) THEN [err |-> NoError, rel |-> rel]
  ELSE IF Throws(maps, e, ds[i])
       THEN [err |-> UnknownReference(cat, e.id, ds[i], ThrownRef(maps, e, ds[i])), rel |-> rel]
       ELSE ResolveFields(maps, cat, e, ds, i + 1,
                          (ds[i].field :> Resolved(maps, e, ds[i])) @@ rel)

\* The scalar fields of a new node: the entry's, with the defaults of the
\* constructors and of defineGraph for the ones the entry omits.
Defaults(cat) ==
  CASE cat = "risks" -> [status |-> "active"]
    [] cat = "competitors" -> [threatLevel |-> "low"]
    [] cat = "repositories" -> [language |-> "TypeScript"]
    [] cat = "assumptions" -> [currentEvidence |-> << >>]
    [] OTHER -> << >>

ScalarFields(cat, e) == e.a @@ Defaults(cat)

\* new Kind(id, title, ...): the instance as the constructor leaves it.
NewNode(cat, id, title, rel, a) ==
  [kind |-> NodeKind(cat), id |-> id, title |-> title, r |-> rel, a |-> a]

\* The relation record of a node of this category with every field at its
\* placeholder.
EmptyRelations(cat) ==
  LET ds == RelationFields(cat)
  IN  [f \in { ds[i].field : i \in 1..Len(ds) } |->
         Placeholder(ds[CHOOSE i \in 1..Len(ds) : ds[i].field = f])]

\* The builder's local state: the instances constructed, the per-kind maps
\* and the error thrown (NoError while none).
NewBuild == [heap |-> << >>, maps |-> [c \in CategorySet |-> << >>], err |-> NoError]

\* map.set(id, node) with a node just constructed.
Store(st, cat, node) ==
  [st EXCEPT !.heap = Append(@, node),
             !.maps[cat] = MapSet(@, node.id, Len(st.heap) + 1)]

\* The rest of an iteration once the relations are resolved (res): the
\* error is thrown, or the node is constructed and stored.
Construct(st, cat, res, id, title, a) ==
  IF res.err # NoError THEN [st EXCEPT !.err = res.err]
  ELSE Store(st, cat, NewNode(cat, id, title, res.rel, a))

\* One iteration of a pass-1 loop: resolve, construct, map.set(id, node).
CreateEntry(st, cat, e) ==
  Construct(st, cat,
            ResolveFields(st.maps, cat, e, Pass1Fields(cat), 1, EmptyRelations(cat)),
            e.id, e.title, ScalarFields(cat, e))

\* for (const [id, def] of Object.entries(def[cat] ?? {})) { ... }
RECURSIVE Pass1(_, _, _, _)
Pass1(st, d, cat, i) ==
  IF st.err # NoError \/ i > Len(d[cat]) THEN st
  ELSE Pass1(CreateEntry(st, cat, d[cat][i]), d, cat, i + 1)

\* The `continue` of a second pass: every stored relation is empty / unset.
NothingStored(e, ds) ==
  \A i \in 1..Len(ds) :
     IF ds[i].mode = "list" THEN Len(ListIds(e, ds[i])) = 0 ELSE SingleId(e, ds[i]) = ""

\* A rebuild that passes only the relations it resolves to the constructor.
RebuildBare(st, cat, e, ds, existing) ==
  Construct(st, cat, ResolveFields(st.maps, cat, e, ds, 1, EmptyRelations(cat)),
            existing.id, existing.title, existing.a)

\* const existing = map.get(id)!; map.set(id, new Kind(existing.id, ...)):
\* the new instance copies every field of the existing one but the
\* relations ds, resolved against the maps as they are now.
Rebuild(st, cat, e, ds, existing) ==
  Construct(st, cat, ResolveFields(st.maps, cat, e, ds, 1, existing.r),
            existing.id, existing.title, existing.a)

\* One iteration of a second pass or of the gatedBy back-patch.
RebuildEntry(st, cat, e, ds) ==
  IF NothingStored(e, ds) THEN st
  ELSE Rebuild(st, cat, e, ds, st.heap[MapGet(st.maps[cat], e.id)])

\* for (const [id, deps] of stored.entries()) { ... }: the stored entries
\* are in the order of the definition.
RECURSIVE Pass2(_, _, _, _, _)
Pass2(st, d, cat, ds, i) ==
  IF st.err # NoError \/ i > Len(d[cat]) THEN st
  ELSE Pass2(RebuildEntry(st, cat, d[cat][i], ds), d, cat, ds, i + 1)

\* The second pass of a two-pass kind runs right after its first.
SecondPass(st, d, cat) ==
  IF Pass2Fields(cat) = << >> THEN st ELSE Pass2(st, d, cat, Pass2Fields(cat), 1)

\* Phase 17 (the gatedBy back-patch of the milestones) runs after the
\* guiding policies and before the assumptions.
GatedByPass(st, d, cat) ==
  IF cat = "guidingPolicies"
  THEN Pass2(st, d, "milestones", GatedByFields("milestones"), 1)
  ELSE st

\* The phases of defineGraph in source order; a throw ends the function.
RECURSIVE Phases(_, _, _)
Phases(st, d, k) ==
  IF st.err # NoError \/ k > Len(Categories) THEN st
  ELSE Phases(GatedByPass(SecondPass(Pass1(st, d, Categories[k], 1), d, Categories[k]),
                          d, Categories[k]),
              d, k + 1)

\* A return statement that spreads the maps in the order they were built.
ReturnInConstructionOrder == Categories

\* The order in which the maps are spread into the returned array.
ReturnOrder ==
  << "primitives", "suppliers", "supplierPrimitives", "tooling", "customers",
     "competitors", "risks", "capabilities", "products", "projects",
     "milestones", "repositories", "thesis", "constraints", "proxyMetrics",
     "competencies", "diagnoses", "actionGates", "guidingPolicies",
     "assumptions", "decisions" >>

\* A return statement that leaves out the last map.
RECURSIVE CombineButLast(_, _)
CombineButLast(maps, k) ==
  IF k >= Len(ReturnOrder) THEN << >>
  ELSE MapValues(maps[ReturnOrder[k]]) \o CombineButLast(maps, k + 1)

RECURSIVE Combine(_, _)
Combine(maps, k) ==
  IF k > Len(ReturnOrder) THEN << >>
  ELSE MapValues(maps[ReturnOrder[k]]) \o Combine(maps, k + 1)

\* return [...primitives.values(), ...]: reached only when nothing threw.
Returned(st) ==
  IF st.err # NoError
  THEN [err |-> st.err, nodes |-> << >>, heap |-> st.heap]
  ELSE [err |-> NoError, nodes |-> Combine(st.maps, 1), heap |-> st.heap]

\* defineGraph(def): the error thrown, or the returned array together with
\* every instance constructed on the way.
defineGraph(d) == Returned(Phases(NewBuild, d, 1))

\* ------------------------------------------------------------------------
\* Relation Deriver (deriveRelations)
\* ------------------------------------------------------------------------

\* One loop of the derivation pass: nodes of `kind` push themselves into
\* `map` under every target of `field`.  mode "list" is `for (const t of
\* node.field)`, "single" is `map.get(node.field)?.push(node)` and "truthy"
\* the same guarded by `if (node.field)`.
Derive(k, f, m, md) == [kind |-> k, field |-> f, map |-> m, mode |-> md]

Derivations ==
  << Derive("thesis", "justifiedBy", "justifies", "list"),
     Derive("capability", "dependsOn", "dependedOnBy", "list"),
     Derive("capability", "supplierPrimitives", "usedByCapabilities", "list"),
     Derive("capability", "tooling", "toolingUsedByCapabilities", "list"),
     Derive("capability", "risks", "risksFor", "list"),
     Derive("capability", "suppliers", "supplies", "list"),
     Derive("tooling", "dependsOn", "toolingDependedOnBy", "list"),
     Derive("tooling", "supplierPrimitives", "usedByTooling", "list"),
     Derive("supplier-primitive", "supplier", "providesSupplierPrimitives", "single"),
     Derive("risk", "mitigatedBy", "mitigates", "list"),
     Derive("product", "enabledBy", "enables", "list"),
     Derive("product", "tooling", "toolingUsedByProducts", "list"),
     Derive("product", "customers", "targetedBy", "list"),
     Derive("product", "competitors", "competedBy", "list"),
     Derive("project", "enabledBy", "enablesProjects", "list"),
     Derive("project", "tooling", "toolingUsedByProjects", "list"),
     Derive("milestone", "dependsOnMilestones", "milestoneDependsOn", "list"),
     Derive("milestone", "dependsOnCapabilities", "milestoneForCapability", "list"),
     Derive("milestone", "products", "milestoneForProduct", "list"),
     Derive("repository", "dependsOn", "repositoryDependedOnBy", "list"),
     Derive("repository", "upstream", "repositoryForkedBy", "truthy"),
     Derive("repository", "products", "repositoryForProduct", "list"),
     Derive("repository", "capabilities", "repositoryForCapability", "list"),
     Derive("competency", "evidencedBy", "evidencesCompetency", "list"),
     Derive("diagnosis", "evidencedBy", "evidencesDiagnosis", "list"),
     Derive("diagnosis", "constrainedBy", "constrainsDiagnosis", "list"),
     Derive("guiding-policy", "addressesDiagnosis", "addressedByPolicy", "single"),
     Derive("guiding-policy", "leveragesCompetencies", "leveragedByPolicy", "list"),
     Derive("guiding-policy", "worksAroundConstraints", "workedAroundByPolicy", "list"),
     Derive("action-gate", "proxyMetrics", "usedByActionGate", "list"),
     Derive("action-gate", "blockedBy", "blocksGate", "list"),
     Derive("action-gate", "unlocks", "unlockedByGate", "list"),
     Derive("milestone", "gatedBy", "gatesMilestone", "list"),
     Derive("assumption", "dependentProducts", "assumptionsForProduct", "list"),
     Derive("assumption", "dependentMilestones", "assumptionsForMilestone", "list"),
     Derive("assumption", "relatedRisks", "assumptionsForRisk", "list"),
     Derive("assumption", "dependsOnAssumptions", "enablesAssumptions", "list"),
     Derive("decision", "dependsOnAssumptions", "decisionsForAssumption", "list"),
     Derive("decision", "affectedProducts", "decisionsForProduct", "list"),
     Derive("decision", "affectedMilestones", "decisionsForMilestone", "list"),
     Derive("decision", "supersededBy", "supersedes", "truthy") >>

MapNames == { Derivations[i].map : i \in 1..Len(Derivations) }

Range(seq) == { seq[i] : i \in 1..Len(seq) }

\* The initialisation loop starting one node too late.
EmptyMapsFromSecond(nodes) ==
  [m \in MapNames |-> [n \in Range(SubSeq(nodes, 2, Len(nodes))) |-> << >>]]

\* "Initialize empty arrays for all nodes": map.set(node, []) for every map.
EmptyMaps(nodes) == [m \in MapNames |-> [n \in Range(nodes) |-> << >>]]

\* A push that keeps a slot free of repetitions.
PushOnce(slots, target, node) ==
  IF target \in DOMAIN slots /\ node \notin Range(slots[target])
  THEN [slots EXCEPT ![target] = Append(@, node)]
  ELSE slots

\* map.get(target)?.push(node): nothing happens when target is not a key.
Push(slots, target, node) ==
  IF target \in DOMAIN slots THEN [slots EXCEPT ![target] = Append(@, node)] ELSE slots

\* for (const t of targets) map.get(t)?.push(node)
RECURSIVE PushAll(_, _, _, _)
PushAll(slots, targets, node, i) ==
  IF i > Len(targets) THEN slots
  ELSE PushAll(Push(slots, targets[i], node), targets, node, i + 1)

\* One loop of the pass for one node.  A field the instance does not have
\* is undefined: `for ... of undefined` throws a TypeError, while the
\* single forms just find no key.
ApplyDerivation(h, st, n, dv) ==
  LET r == h[n].r
  IN  IF h[n].kind # dv.kind THEN st
      ELSE IF dv.mode = "list"
           THEN IF dv.field \notin DOMAIN r THEN [st EXCEPT !.threw = TRUE]
                ELSE [st EXCEPT !.maps[dv.map] = PushAll(@, r[dv.field], n, 1)]
           ELSE IF dv.field \notin DOMAIN r THEN st
                ELSE IF dv.mode = "truthy" /\ r[dv.field] = 0 THEN st
                ELSE [st EXCEPT !.maps[dv.map] = Push(@, r[dv.field], n)]

RECURSIVE DeriveNode(_, _, _, _)
DeriveNode(h, st, n, k) ==
  IF st.threw \/ k > Len(Derivations) THEN st
  ELSE DeriveNode(h, ApplyDerivation(h, st, n, Derivations[k]), n, k + 1)

RECURSIVE DeriveNodes(_, _, _, _)
DeriveNodes(h, st, nodes, i) ==
  IF st.threw \/ i > Len(nodes) THEN st
  ELSE DeriveNodes(h, DeriveNode(h, st, nodes[i], 1), nodes, i + 1)

\* return { ...maps }: reached only when the pass did not throw.
Derived(st) == IF st.threw THEN [threw |-> TRUE, maps |-> << >>] ELSE st

\* deriveRelations(nodes): the maps, or threw when the pass raised.
deriveRelations(h, nodes) ==
  Derived(DeriveNodes(h, [threw |-> FALSE, maps |-> EmptyMaps(nodes)], nodes, 1))

\* ------------------------------------------------------------------------
\* Validator (validatePlan and the validators it calls)
\* ------------------------------------------------------------------------

\* A ValidationError {nodeId, message}: the message is its fixed text and
\* the values interpolated into it.
Error(id, text) == [nodeId |-> id, text |-> text, p1 |-> "", p2 |-> "", n1 |-> 0, n2 |-> 0]

ErrorWith(id, text, p1, p2, n1, n2) ==
  [nodeId |-> id, text |-> text, p1 |-> p1, p2 |-> p2, n1 |-> n1, n2 |-> n2]

\* errors.push(e) when the condition holds.
PushIf(cond, errors, e) == IF cond THEN Append(errors, e) ELSE errors

\* A string the validator inspects is the sequence of its characters.
Https == << "h", "t", "t", "p", "s", ":", "/", "/" >>

Whitespace == { " ", "\t", "\n", "\r" }

\* !s || s.trim().length === 0
IsBlank(str) == \A i \in 1..Len(str) : str[i] \in Whitespace

\* s.startsWith(prefix)
StartsWith(str, prefix) ==
  /\ Len(str) >= Len(prefix)
  /\ \A i \in 1..Len(prefix) : str[i] = prefix[i]

Digits == { "0", "1", "2", "3", "4", "5", "6", "7", "8", "9" }

\* /^\d{4}-\d{2}-\d{2}$/.test(s)
IsIsoDate(str) ==
  /\ Len(str) = 10
  /\ \A i \in { 1, 2, 3, 4, 6, 7, 9, 10 } : str[i] \in Digits
  /\ str[5] = "-" /\ str[8] = "-"

\* A duplicate check that never records the id it has seen.
RECURSIVE DuplicateIdsForgetful(_, _, _)
DuplicateIdsForgetful(h, nodes, st) ==
  IF st.i > Len(nodes) THEN st.errors
  ELSE DuplicateIdsForgetful(h, nodes,
         [i |-> st.i + 1,
          seenIds |-> st.seenIds,
          errors |-> PushIf(h[nodes[st.i]].id \in st.seenIds, st.errors,
                            ErrorWith(h[nodes[st.i]].id, "Duplicate node ID",
                                      h[nodes[st.i]].id, "", 0, 0))])

\* "Check for duplicate IDs": the loop's state is the position i, the set
\* seenIds and the errors array; an id already seen is reported, then added.
RECURSIVE DuplicateIds(_, _, _)
DuplicateIds(h, nodes, st) ==
  IF st.i > Len(nodes) THEN st.errors
  ELSE LET id == h[nodes[st.i]].id
       IN  DuplicateIds(h, nodes,
             [i |-> st.i + 1,
              seenIds |-> st.seenIds \cup { id },
              errors |-> PushIf(id \in st.seenIds, st.errors,
                                ErrorWith(id, "Duplicate node ID", id, "", 0, 0))])

\* A content check that looks for {id}.mdx under any kind's directory.
MissingContentOfAnyKind(node, docs, errors) ==
  PushIf(\A doc \in docs : doc[2] # node.id, errors,
         ErrorWith(node.id, "Missing content file", node.kind, node.id, 0, 0))

\* existsSync(content/{kind}/{id}.mdx)
MissingContent(node, docs, errors) ==
  PushIf(<<node.kind, node.id>> \notin docs, errors,
         ErrorWith(node.id, "Missing content file", node.kind, node.id, 0, 0))

validateThesis(node, errors) ==
  PushIf(Len(node.r.justifiedBy) = 0, errors,
         Error(node.id, "Thesis must be justified by at least one capability"))

validateCapability(node, errors) ==
  PushIf(Len(node.r.dependsOn) = 0, errors,
         Error(node.id, "Capability must depend on at least one primitive"))

\* The earlier risk check: at least one mitigation.
validateRiskMitigated(node, errors) ==
  PushIf(Len(node.r.mitigatedBy) = 0, errors,
         Error(node.id, "Risk must be mitigated by at least one primitive"))

validateRisk(node, errors) == errors

\* A product check that asks for customers instead of capabilities.
validateProductCustomers(node, errors) ==
  PushIf(Len(node.r.customers) = 0, errors,
         Error(node.id, "Product must be enabled by at least one capability"))

validateProduct(node, errors) ==
  PushIf(Len(node.r.enabledBy) = 0, errors,
         Error(node.id, "Product must be enabled by at least one capability"))

Variants == << "expected", "aggressive", "speedOfLight" >>

RECURSIVE TimelineConfigErrors(_, _, _)
TimelineConfigErrors(node, k, errors) ==
  IF k > Len(Variants) THEN errors
  ELSE LET config == node.a.timelines[Variants[k]]
           e1 == PushIf(config.startMonth < 0, errors,
                        ErrorWith(node.id, "Milestone timeline has invalid startMonth",
                                  Variants[k], "", 0, 0))
           e2 == PushIf(config.durationMonths < 0, e1,
                        ErrorWith(node.id, "Milestone timeline has invalid durationMonths",
                                  Variants[k], "", 0, 0))
       IN  TimelineConfigErrors(node, k + 1, e2)

validateMilestone(node, errors) ==
  LET e1 == PushIf(node.a.expectedRevenue < 0, errors,
                   Error(node.id, "Milestone expectedRevenue must be non-negative"))
      e2 == PushIf(node.a.expectedCosts < 0, e1,
                   Error(node.id, "Milestone expectedCosts must be non-negative"))
  IN  TimelineConfigErrors(node, 1, e2)

\* A repository check without the rule that only forks have an upstream.
validateRepositoryAnyUpstream(node, errors) ==
  LET e1 == PushIf(node.a.stackLevel < 0 \/ node.a.stackLevel > 4, errors,
                   ErrorWith(node.id, "Repository stackLevel must be 0-4", "", "",
                             node.a.stackLevel, 0))
      e2 == PushIf(node.a.repoType = "fork" /\ node.r.upstream = 0, e1,
                   Error(node.id, "Fork repository must specify an upstream repository"))
  IN  PushIf(Len(node.a.url) > 0 /\ ~StartsWith(node.a.url, Https), e2,
             Error(node.id, "Repository URL must start with https://"))

validateRepository(node, errors) ==
  LET e1 == PushIf(node.a.stackLevel < 0 \/ node.a.stackLevel > 4, errors,
                   ErrorWith(node.id, "Repository stackLevel must be 0-4", "", "",
                             node.a.stackLevel, 0))
      e2 == PushIf(node.a.repoType = "fork" /\ node.r.upstream = 0, e1,
                   Error(node.id, "Fork repository must specify an upstream repository"))
      e3 == PushIf(node.a.repoType # "fork" /\ node.r.upstream # 0, e2,
                   Error(node.id, "Only fork repositories should have an upstream"))
  IN  PushIf(Len(node.a.url) > 0 /\ ~StartsWith(node.a.url, Https), e3,
             Error(node.id, "Repository URL must start with https://"))

validateDiagnosis(node, errors) ==
  PushIf(Len(node.r.evidencedBy) = 0, errors,
         Error(node.id, "Diagnosis must be evidenced by at least one risk"))

validateGuidingPolicy(node, errors) ==
  PushIf(Len(node.r.leveragesCompetencies) = 0, errors,
         Error(node.id, "Guiding policy must leverage at least one competency"))

validateActionGate(node, errors) ==
  LET e1 == PushIf(IsBlank(node.a.action), errors,
                   Error(node.id, "Action gate must have an action description"))
  IN  PushIf(Len(node.a.passCriteria) = 0, e1,
             Error(node.id, "Action gate must have at least one pass criterion"))

validateProxyMetric(node, errors) ==
  LET e1 == PushIf(node.a.currentValue = node.a.targetValue, errors,
                   Error(node.id, "Proxy metric target value should differ from current value"))
      e2 == PushIf(node.a.currentValue < 0, e1,
                   Error(node.id, "Proxy metric current value must be non-negative"))
  IN  PushIf(node.a.targetValue < 0, e2,
             Error(node.id, "Proxy metric target value must be non-negative"))

\* An assumption check that asks evidence of validated assumptions only.
validateAssumptionValidatedOnly(node, errors) ==
  LET e1 == PushIf(IsBlank(node.a.statement), errors,
                   Error(node.id, "Assumption must have a statement"))
      e2 == PushIf(IsBlank(node.a.testMethod), e1,
                   Error(node.id, "Assumption must have a test method"))
      e3 == PushIf(Len(node.a.validationCriteria) = 0, e2,
                   Error(node.id, "Assumption must have at least one validation criterion"))
      e4 == PushIf(Len(node.a.invalidationCriteria) = 0, e3,
                   Error(node.id, "Assumption must have at least one invalidation criterion"))
      e5 == PushIf(node.a.confidence < 0 \/ node.a.confidence > 100, e4,
                   Error(node.id, "Assumption confidence must be between 0 and 100"))
  IN  PushIf(node.a.status = "validated" /\ Len(node.a.currentEvidence) = 0, e5,
             Error(node.id, "Validated assumption should have supporting evidence"))

validateAssumption(node, errors) ==
  LET e1 == PushIf(IsBlank(node.a.statement), errors,
                   Error(node.id, "Assumption must have a statement"))
      e2 == PushIf(IsBlank(node.a.testMethod), e1,
                   Error(node.id, "Assumption must have a test method"))
      e3 == PushIf(Len(node.a.validationCriteria) = 0, e2,
                   Error(node.id, "Assumption must have at least one validation criterion"))
      e4 == PushIf(Len(node.a.invalidationCriteria) = 0, e3,
                   Error(node.id, "Assumption must have at least one invalidation criterion"))
      e5 == PushIf(node.a.confidence < 0 \/ node.a.confidence > 100, e4,
                   Error(node.id, "Assumption confidence must be between 0 and 100"))
      e6 == PushIf(node.a.status = "validated" /\ Len(node.a.currentEvidence) = 0, e5,
                   Error(node.id, "Validated assumption should have supporting evidence"))
  IN  PushIf(node.a.status = "invalidated" /\ Len(node.a.currentEvidence) = 0, e6,
             Error(node.id, "Invalidated assumption should have evidence of invalidation"))

validateDecision(node, errors) ==
  LET e1 == PushIf(IsBlank(node.a.context), errors,
                   Error(node.id, "Decision must have context explaining the situation"))
      e2 == PushIf(IsBlank(node.a.choice), e1,
                   Error(node.id, "Decision must state the choice made"))
      e3 == PushIf(IsBlank(node.a.rationale), e2,
                   Error(node.id, "Decision must have rationale explaining why this choice was made"))
      e4 == PushIf(node.a.status = "active" /\ Len(node.a.reversalTriggers) = 0, e3,
                   Error(node.id, "Active decision should have at least one reversal trigger"))
      e5 == PushIf(Len(node.a.tradeoffs) = 0, e4,
                   Error(node.id, "Decision should acknowledge at least one tradeoff"))
      e6 == PushIf(Len(node.a.reviewDate) > 0 /\ ~IsIsoDate(node.a.reviewDate), e5,
                   Error(node.id, "Decision review date should be in YYYY-MM-DD format"))
  IN  PushIf(node.a.status = "superseded" /\ node.r.supersededBy = 0, e6,
             Error(node.id, "Superseded decision should reference the decision that supersedes it"))

\* The if / else-if chain of "Node-specific validations".
KindSpecific(node, errors) ==
  CASE node.kind = "thesis" -> validateThesis(node, errors)
    [] node.kind = "capability" -> validateCapability(node, errors)
    [] node.kind = "risk" -> validateRisk(node, errors)
    [] node.kind = "product" -> validateProduct(node, errors)
    [] node.kind = "milestone" -> validateMilestone(node, errors)
    [] node.kind = "repository" -> validateRepository(node, errors)
    [] node.kind = "diagnosis" -> validateDiagnosis(node, errors)
    [] node.kind = "guiding-policy" -> validateGuidingPolicy(node, errors)
    [] node.kind = "action-gate" -> validateActionGate(node, errors)
    [] node.kind = "proxy-metric" -> validateProxyMetric(node, errors)
    [] node.kind = "assumption" -> validateAssumption(node, errors)
    [] node.kind = "decision" -> validateDecision(node, errors)
    [] OTHER -> errors

\* A node validation that gives up once an error has been recorded.
ValidateNodeFailFast(node, docs, errors) ==
  IF Len(errors) > 0 THEN errors
  ELSE KindSpecific(node, MissingContent(node, docs, errors))

\* The body of "Validate each node" for one node.
ValidateNode(node, docs, errors) == KindSpecific(node, MissingContent(node, docs, errors))

\* "Validate each node": the loop's state is the position i and the
\* errors array.
RECURSIVE ValidateNodes(_, _, _, _)
ValidateNodes(h, nodes, docs, st) ==
  IF st.i > Len(nodes) THEN st.errors
  ELSE ValidateNodes(h, nodes, docs,
         [i |-> st.i + 1, errors |-> ValidateNode(h[nodes[st.i]], docs, st.errors)])

\* nodes.filter(isMilestone)
RECURSIVE Filter(_, _, _, _)
Filter(h, nodes, kind, i) ==
  IF i > Len(nodes) THEN << >>
  ELSE (IF h[nodes[i]].kind = kind THEN << nodes[i] >> ELSE << >>)
       \o Filter(h, nodes, kind, i + 1)

End(config) == config.startMonth + config.durationMonths

\* Math.max(...ends) of a non-empty set of numbers.
Max(S) == CHOOSE x \in S : \A y \in S : y <= x

\* A deadline check that counts the skipped milestones too.
DeadlineBoundOverAll(h, milestones, variant, errors) ==
  LET maxEnd == Max({ End(h[milestones[i]].a.timelines.speedOfLight) :
                        i \in 1..Len(milestones) })
  IN  IF variant = "speedOfLight" /\ Len(milestones) > 0
      THEN PushIf(maxEnd > 12, errors,
                  ErrorWith("timeline-speedOfLight", "Speed of Light timeline exceeds 12 months",
                            "", "", maxEnd, 0))
      ELSE errors

\* 1. Speed of Light must complete within 12 months.
DeadlineBound(h, milestones, variant, errors) ==
  LET included == { i \in 1..Len(milestones) :
                      h[milestones[i]].a.timelines.speedOfLight.included }
      maxEnd   == Max({ End(h[milestones[i]].a.timelines.speedOfLight) : i \in included })
  IN  IF variant = "speedOfLight" /\ included # { }
      THEN PushIf(maxEnd > 12, errors,
                  ErrorWith("timeline-speedOfLight", "Speed of Light timeline exceeds 12 months",
                            "", "", maxEnd, 0))
      ELSE errors

\* 2. Dependency feasibility, for the dependencies of one milestone from
\*    the j-th on.
RECURSIVE SkippedDependencies(_, _, _, _, _)
SkippedDependencies(h, m, variant, j, errors) ==
  IF j > Len(h[m].r.dependsOnMilestones) THEN errors
  ELSE LET dep == h[h[m].r.dependsOnMilestones[j]]
       IN  SkippedDependencies(h, m, variant, j + 1,
             PushIf(~dep.a.timelines[variant].included, errors,
                    ErrorWith(h[m].id, "included but depends on skipped milestone",
                              variant, dep.id, 0, 0)))

\* A feasibility check that does not skip the milestones left out of the
\* variant.
RECURSIVE DependencyFeasibilityOfAll(_, _, _, _, _)
DependencyFeasibilityOfAll(h, milestones, variant, i, errors) ==
  IF i > Len(milestones) THEN errors
  ELSE DependencyFeasibilityOfAll(h, milestones, variant, i + 1,
         SkippedDependencies(h, milestones[i], variant, 1, errors))

RECURSIVE DependencyFeasibility(_, _, _, _, _)
DependencyFeasibility(h, milestones, variant, i, errors) ==
  IF i > Len(milestones) THEN errors
  ELSE DependencyFeasibility(h, milestones, variant, i + 1,
         IF ~h[milestones[i]].a.timelines[variant].included THEN errors
         ELSE SkippedDependencies(h, milestones[i], variant, 1, errors))

\* A timing check that compares the months in which the two start.
RECURSIVE LateDependenciesByStart(_, _, _, _, _)
LateDependenciesByStart(h, m, variant, j, errors) ==
  IF j > Len(h[m].r.dependsOnMilestones) THEN errors
  ELSE LET dep    == h[h[m].r.dependsOnMilestones[j]]
           config == h[m].a.timelines[variant]
       IN  LateDependenciesByStart(h, m, variant, j + 1,
             IF ~dep.a.timelines[variant].included THEN errors
             ELSE PushIf(dep.a.timelines[variant].startMonth > config.startMonth, errors,
                         ErrorWith(h[m].id, "starts before dependency ends", variant, dep.id,
                                   config.startMonth, dep.a.timelines[variant].startMonth)))

\* A timing check that rejects a dependency ending in the month its
\* dependent starts.
RECURSIVE LateDependenciesOrEqual(_, _, _, _, _)
LateDependenciesOrEqual(h, m, variant, j, errors) ==
  IF j > Len(h[m].r.dependsOnMilestones) THEN errors
  ELSE LET dep    == h[h[m].r.dependsOnMilestones[j]]
           config == h[m].a.timelines[variant]
           depEnd == End(dep.a.timelines[variant])
       IN  LateDependenciesOrEqual(h, m, variant, j + 1,
             IF ~dep.a.timelines[variant].included THEN errors
             ELSE PushIf(depEnd >= config.startMonth, errors,
                         ErrorWith(h[m].id, "starts before dependency ends",
                                   variant, dep.id, config.startMonth, depEnd)))

\* 3. Timing consistency, likewise.
RECURSIVE LateDependencies(_, _, _, _, _)
LateDependencies(h, m, variant, j, errors) ==
  IF j > Len(h[m].r.dependsOnMilestones) THEN errors
  ELSE LET dep    == h[h[m].r.dependsOnMilestones[j]]
           config == h[m].a.timelines[variant]
           depEnd == End(dep.a.timelines[variant])
       IN  LateDependencies(h, m, variant, j + 1,
             IF ~dep.a.timelines[variant].included THEN errors
             ELSE PushIf(depEnd > config.startMonth, errors,
                         ErrorWith(h[m].id, "starts before dependency ends",
                                   variant, dep.id, config.startMonth, depEnd)))

RECURSIVE TimingConsistency(_, _, _, _, _)
TimingConsistency(h, milestones, variant, i, errors) ==
  IF i > Len(milestones) THEN errors
  ELSE TimingConsistency(h, milestones, variant, i + 1,
         IF ~h[milestones[i]].a.timelines[variant].included THEN errors
         ELSE LateDependencies(h, milestones[i], variant, 1, errors))

RECURSIVE validateTimelines(_, _, _, _)
validateTimelines(h, milestones, k, errors) ==
  IF k > Len(Variants) THEN errors
  ELSE LET e1 == DeadlineBound(h, milestones, Variants[k], errors)
           e2 == DependencyFeasibility(h, milestones, Variants[k], 1, e1)
           e3 == TimingConsistency(h, milestones, Variants[k], 1, e2)
       IN  validateTimelines(h, milestones, k + 1, e3)

\* "Cross-milestone timeline validation"
TimelinePhase(h, milestones, errors) ==
  IF Len(milestones) > 0 THEN validateTimelines(h, milestones, 1, errors) ELSE errors

\* A result that tolerates one error.
ResultLenient(errors) == [valid |-> Len(errors) <= 1, errors |-> errors]

\* return { valid: errors.length === 0, errors }
Result(errors) == [valid |-> Len(errors) = 0, errors |-> errors]

\* validatePlan(nodes): one errors array is passed through every check.
validatePlan(h, nodes, docs) ==
  Result(
    TimelinePhase(h, Filter(h, nodes, "milestone", 1),
      ValidateNodes(h, nodes, docs,
        [i |-> 1,
         errors |-> DuplicateIds(h, nodes, [i |-> 1, seenIds |-> { }, errors |-> << >>])])))

\* ------------------------------------------------------------------------
\* Inputs: the definitions of plan/graph.ts and the content store
\* ------------------------------------------------------------------------

\* The longest list of ids an entry gives, summed over its same-kind
\* relations (and over the focused relation of a cross-kind definition).
MaxRefs == 2

UrlOk == Https \o << "x" >>

DateOk == << "2", "0", "2", "6", "-", "0", "1", "-", "3", "1" >>

Text == << "o", "k" >>

SeqsUpTo(S, n) == UNION { [1..k -> S] : k \in 0..n }

TimelineConfig(s, dur, inc) == [startMonth |-> s, durationMonths |-> dur, included |-> inc]

Timelines(e, a, s) == [expected |-> e, aggressive |-> a, speedOfLight |-> s]

\* Scalar fields that pass every check of the validator.
ValidScalars(cat) ==
  CASE cat = "milestones" ->
         [expectedRevenue |-> 1, expectedCosts |-> 0,
          timelines |-> Timelines(TimelineConfig(0, 0, TRUE), TimelineConfig(0, 0, TRUE),
                                  TimelineConfig(0, 0, TRUE))]
    [] cat = "repositories" -> [url |-> UrlOk, stackLevel |-> 0, repoType |-> "owned"]
    [] cat = "constraints" -> [severity |-> "hard", category |-> "team"]
    [] cat = "proxyMetrics" ->
         [currentValue |-> 0, targetValue |-> 1, frequency |-> "weekly", unit |-> Text]
    [] cat = "actionGates" -> [action |-> Text, passCriteria |-> << Text >>]
    [] cat = "assumptions" ->
         [statement |-> Text, category |-> "market", status |-> "untested",
          testMethod |-> Text, validationCriteria |-> << Text >>,
          invalidationCriteria |-> << Text >>, confidence |-> 50,
          reviewFrequency |-> "weekly"]
    [] cat = "decisions" ->
         [context |-> Text, category |-> "strategic", status |-> "active",
          alternatives |-> << >>, choice |-> Text, rationale |-> Text,
          tradeoffs |-> << Text >>, reversalTriggers |-> << Text >>,
          reviewDate |-> DateOk]
    [] OTHER -> << >>

\* The title string of an entry: a different one for every kind and id.
TitleOf(cat, id) == << "Title of", NodeKind(cat), id >>

\* The relation arrays that the definition type of a category requires
\* (no `?`): an entry that names nothing there writes [].
RequiredLists(cat) ==
  CASE cat = "risks" -> [mitigatedBy |-> << >>]
    [] cat = "products" -> [enabledBy |-> << >>]
    [] cat = "projects" -> [enabledBy |-> << >>]
    [] cat = "thesis" -> [justifiedBy |-> << >>]
    [] cat = "competencies" -> [evidencedBy |-> << >>]
    [] cat = "diagnoses" -> [evidencedBy |-> << >>, constrainedBy |-> << >>]
    [] cat = "guidingPolicies" ->
         [leveragesCompetencies |-> << >>, worksAroundConstraints |-> << >>]
    [] cat = "actionGates" -> [proxyMetrics |-> << >>]
    [] OTHER -> << >>

\* One entry of a category: Object.entries yields it as [id, definition].
EntryWith(cat, id, r, a) ==
  [id |-> id, title |-> TitleOf(cat, id), r |-> r @@ RequiredLists(cat), a |-> a]

Entry(cat, id, r) == EntryWith(cat, id, r, ValidScalars(cat))

EmptyDef == [c \in CategorySet |-> << >>]

\* The number of ids an entry names over the relations ds.
RECURSIVE RefCount(_, _, _)
RefCount(r, ds, i) ==
  IF i > Len(ds) THEN 0
  ELSE (IF ds[i].field \notin DOMAIN r THEN 0
        ELSE IF ds[i].mode = "list" THEN Len(r[ds[i].field])
        ELSE IF r[ds[i].field] = "" THEN 0 ELSE 1)
       + RefCount(r, ds, i + 1)

\* The ids a definition of the input space may name in relation d: the
\* entries of the target kind are called "a" and "b", the gate of a
\* same-kind milestone definition "g".
IdsFor(d) == { "a", "b" }

\* Every way of writing the relations ds of one entry, naming at most
\* MaxRefs ids in all.
RECURSIVE RelationChoices(_, _)
RelationChoices(ds, i) ==
  IF i > Len(ds) THEN { << >> }
  ELSE LET rest == RelationChoices(ds, i + 1)
           vals == IF ds[i].mode = "list"
                   THEN SeqsUpTo(IdsFor(ds[i]), MaxRefs)
                   ELSE IdsFor(ds[i]) \cup { "" }
       IN  { (ds[i].field :> v) @@ r : v \in vals, r \in rest }

BoundedChoices(ds) == { r \in RelationChoices(ds, 1) : RefCount(r, ds, 1) <= MaxRefs }

\* d with the entries es added at the end of category cat.
With(d, cat, es) == [d EXCEPT ![cat] = @ \o es]

\* The relations an entry must give for its construction not to throw
\* (the single references that are always looked up), naming the entry "q"
\* of the target kind.
RequiredRelations(cat) ==
  CASE cat = "supplierPrimitives" -> [supplier |-> "q"]
    [] cat = "guidingPolicies" -> [addressesDiagnosis |-> "q"]
    [] OTHER -> << >>

\* d with the entry "q" that RequiredRelations(cat) names.
WithRequired(d, cat) ==
  CASE cat = "supplierPrimitives" /\ d["suppliers"] = << >> ->
         With(d, "suppliers", << Entry("suppliers", "q", << >>) >>)
    [] cat = "guidingPolicies" /\ d["diagnoses"] = << >> ->
         With(d, "diagnoses", << Entry("diagnoses", "q", << >>) >>)
    [] OTHER -> d

\* The ways of writing the relations ds of two entries that name at most
\* MaxRefs ids between them.
BoundedPairs(ds) ==
  { p \in BoundedChoices(ds) \X BoundedChoices(ds) :
      RefCount(p[1], ds, 1) + RefCount(p[2], ds, 1) <= MaxRefs }

\* Same-kind definitions: one or two entries "a" and "b" of a two-pass
\* kind, in either declaration order, each naming "a" / "b" in its
\* same-kind relations (so a single entry "a" naming "b" is unresolved).
SameKindDefs(cat) ==
  { With(EmptyDef, cat, << Entry(cat, "a", ra) >>) : ra \in BoundedChoices(Pass2Fields(cat)) }
  \cup
  { With(EmptyDef, cat, << Entry(cat, ids[1], p[1]), Entry(cat, ids[2], p[2]) >>) :
      ids \in { << "a", "b" >>, << "b", "a" >> }, p \in BoundedPairs(Pass2Fields(cat)) }

\* Milestone definitions of two entries in which "a" is gated by the action
\* gate "g", so that the gatedBy back-patch rebuilds "a" after the second
\* pass of the milestones.
GatedDefs ==
  { With(With(EmptyDef, "milestones",
              << Entry("milestones", ids[1],
                       IF ids[1] = "a" THEN p[1] @@ [gatedBy |-> << "g" >>] ELSE p[1]),
                 Entry("milestones", ids[2],
                       IF ids[2] = "a" THEN p[2] @@ [gatedBy |-> << "g" >>] ELSE p[2]) >>),
         "actionGates", << Entry("actionGates", "g", << >>) >>) :
      ids \in { << "a", "b" >>, << "b", "a" >> },
      p \in BoundedPairs(Pass2Fields("milestones")) }

TwoPassKinds == { "milestones", "repositories", "actionGates", "decisions" }

\* Cross-kind definitions: an entry "c" of category cat names "a" / "b" in
\* its relation d; the target kind declares "a", or "a" and "b" in either
\* order; a leaf category may hold the id "b" or "c" as well, so that an id
\* exists under another kind, or under two kinds.
CrossKindFields(cat) == Pass1Fields(cat) \o GatedByFields(cat)

TargetOrders == { << "a" >>, << "a", "b" >>, << "b", "a" >> }

DecoyCategory(cat, d) ==
  IF "customers" \in { cat, d.target } THEN "competitors" ELSE "customers"

DecoyIds == { "", "b", "c" }

CrossKindDef(cat, d, ids, r, decoy) ==
  LET tgt == [i \in 1..Len(ids) |-> Entry(d.target, ids[i], RequiredRelations(d.target))]
      src == << Entry(cat, "c", r @@ RequiredRelations(cat)) >>
      d1  == With(WithRequired(EmptyDef, d.target), d.target, tgt)
      d2  == With(WithRequired(d1, cat), cat, src)
  IN  IF decoy = "" THEN d2
      ELSE With(d2, DecoyCategory(cat, d),
                << Entry(DecoyCategory(cat, d), decoy, << >>) >>)

\* The decoy is added to the definitions whose target kind declares "a"
\* alone.
DecoysFor(ids) == IF ids = << "a" >> THEN DecoyIds ELSE { "" }

CrossKindDefs(cat) ==
  UNION { UNION { { CrossKindDef(cat, CrossKindFields(cat)[k], ids, r, decoy) :
                      r \in BoundedChoices(<< CrossKindFields(cat)[k] >>),
                      decoy \in DecoysFor(ids) } :
                  ids \in TargetOrders } :
          k \in 1..Len(CrossKindFields(cat)) }

\* A whole plan: one entry of every category, its id the kind's name, every
\* relation naming the one entry of its target kind; the assumption (and
\* what names it) is left out when withAssumption is FALSE.
PlanId(cat) == NodeKind(cat)

PlanRelations(cat, withAssumption) ==
  LET ds == Pass1Fields(cat) \o GatedByFields(cat)
  IN  [f \in { ds[i].field : i \in 1..Len(ds) } |->
         LET d == ds[CHOOSE i \in 1..Len(ds) : ds[i].field = f]
         IN  IF d.mode = "list"
             THEN IF d.target = "assumptions" /\ ~withAssumption THEN << >>
                  ELSE << PlanId(d.target) >>
             ELSE PlanId(d.target)]

WholePlan(withAssumption) ==
  [c \in CategorySet |->
     IF c = "assumptions" /\ ~withAssumption THEN << >>
     ELSE << Entry(c, PlanId(c), PlanRelations(c, withAssumption)) >>]

\* Defective plans: the milestones "a" and "b" ("b" after "a"), the
\* capability "c" and the primitive "p", with or without a supplier and a
\* customer that reuse the id "a"; the capability may depend on nothing and
\* the revenue of "a" may be negative. In one variant v, "a" starts at
\* month 0, runs for 0, 2 or 13 months and may be skipped, and "b" starts at
\* month 2 and may be skipped; in the other two variants "a" runs over
\* month 0, "b" over month 2, and both are included.
VariantTimelines(v, config, other) ==
  [k \in { "expected", "aggressive", "speedOfLight" } |-> IF k = v THEN config ELSE other]

Durations == { 0, 2, 13 }

DefectiveMilestone(revenue, v, duration, inc) ==
  [expectedRevenue |-> revenue, expectedCosts |-> 0,
   timelines |-> VariantTimelines(v, TimelineConfig(0, duration, inc),
                                  TimelineConfig(0, 0, TRUE))]

DependentMilestone(v, inc) ==
  [expectedRevenue |-> 1, expectedCosts |-> 0,
   timelines |-> VariantTimelines(v, TimelineConfig(2, 0, inc), TimelineConfig(2, 0, TRUE))]

DefectiveDef(deps, revenue, v, duration, incA, incB, reuse) ==
  [EmptyDef EXCEPT
     !["primitives"] = << Entry("primitives", "p", << >>) >>,
     !["suppliers"] = IF reuse >= 1 THEN << Entry("suppliers", "a", << >>) >> ELSE << >>,
     !["customers"] = IF reuse >= 2 THEN << Entry("customers", "a", << >>) >> ELSE << >>,
     !["capabilities"] = << Entry("capabilities", "c", [dependsOn |-> deps]) >>,
     !["milestones"] =
        << EntryWith("milestones", "a", << >>, DefectiveMilestone(revenue, v, duration, incA)),
           EntryWith("milestones", "b", [dependsOnMilestones |-> << "a" >>],
                     DependentMilestone(v, incB)) >>]

DefectiveDefs ==
  { DefectiveDef(deps, revenue, v, duration, incA, incB, reuse) :
      deps \in { << >>, << "p" >> }, revenue \in { -1, 1 },
      v \in { "expected", "aggressive", "speedOfLight" }, duration \in Durations,
      incA \in BOOLEAN, incB \in BOOLEAN, reuse \in 0..2 }

\* Leaf definitions: one entry "a" of a leaf category written as a bare
\* title string (an entry without scalar fields: Object.entries yields the
\* id and the string), or a competitor written as a record with a threat
\* level.
LeafCategories == { "primitives", "suppliers", "customers", "competitors" }

ThreatLevels == { "low", "medium", "high" }

LeafDefs ==
  { With(EmptyDef, cat, << EntryWith(cat, "a", << >>, << >>) >>) : cat \in LeafCategories }
  \cup
  { With(EmptyDef, "competitors",
         << EntryWith("competitors", "a", << >>, [threatLevel |-> t]),
            EntryWith("competitors", "b", << >>, << >>) >>) : t \in ThreatLevels }

\* Scalar definitions: one node whose scalar fields vary while its
\* relations stay valid.
\*  - a risk "c" that is mitigated by the primitive "a" or by nothing, its
\*    status left out or one of the three statuses;
\*  - a repository "x" of every type, with or without the upstream "u", its
\*    url empty, an https url, an http url or a relative path, its stack
\*    level 0, 4 or 5;
\*  - an assumption "x" of every status, its currentEvidence left out, empty
\*    or one entry long;
\*  - a decision "x" whose reviewDate is one of ReviewDates.
RiskStatuses == { "active", "mitigated", "accepted" }

RiskDefs ==
  { With(With(EmptyDef, "primitives", << Entry("primitives", "a", << >>) >>),
         "risks", << EntryWith("risks", "c", [mitigatedBy |-> m], a) >>) :
      m \in { << >>, << "a" >> },
      a \in { << >> } \cup { [status |-> st] : st \in RiskStatuses } }

RepoTypes == { "owned", "fork", "dependency" }

Urls ==
  { << >>, UrlOk, << "h", "t", "t", "p", ":", "/", "/", "x" >>, << "x" >>,
    << " " >> \o UrlOk }

StackLevels == { 0, 4, 5 }

RepositoryDefs ==
  { With(EmptyDef, "repositories",
         << Entry("repositories", "u", << >>),
            EntryWith("repositories", "x", [upstream |-> up],
                      [url |-> url, stackLevel |-> level, repoType |-> type]) >>) :
      up \in { "", "u" }, url \in Urls, level \in StackLevels, type \in RepoTypes }

AssumptionStatuses ==
  { "untested", "testing", "validated", "invalidated", "partially-validated" }

AssumptionDefs ==
  { With(EmptyDef, "assumptions",
         << EntryWith("assumptions", "x", << >>,
                      ev @@ [ValidScalars("assumptions") EXCEPT !.status = st]) >>) :
      st \in AssumptionStatuses,
      ev \in { << >>, [currentEvidence |-> << >>], [currentEvidence |-> << Text >>] } }

ReviewDates ==
  { << >>, DateOk,
    << "2", "0", "2", "6", "-", "1", "-", "3", "1" >>,
    << "2", "0", "2", "6", "/", "0", "1", "/", "3", "1" >>,
    << "2", "0", "2", "6", "0", "1", "3", "1" >>,
    << "x", "0", "2", "6", "-", "0", "1", "-", "3", "1" >>,
    << "2", "0", "2", "6", "-", "0", "1", "-", "3", "x" >>,
    DateOk \o << "1" >>,
    << " " >> \o DateOk }

DecisionDefs ==
  { With(EmptyDef, "decisions",
         << EntryWith("decisions", "x", << >>,
                      [ValidScalars("decisions") EXCEPT !.reviewDate = date]) >>) :
      date \in ReviewDates }

\* Two milestones that depend on each other, so that the second pass
\* leaves "a" holding the replaced instance of "b", next to an assumption.
MutualMilestonesWithAssumption ==
  { With(With(EmptyDef, "milestones",
              << Entry("milestones", "a", [dependsOnMilestones |-> << "b" >>]),
                 Entry("milestones", "b", [dependsOnMilestones |-> << "a" >>]) >>),
         "assumptions", << Entry("assumptions", "x", << >>) >>) }

\* Scheduled milestones: "a" and "b", each depending on nothing, on itself
\* or on the other, each starting at month 0 or 1 and running 0 or 1
\* months, the same in the three variants; "b" may be skipped.
Schedule(start, duration, inc) ==
  [expectedRevenue |-> 1, expectedCosts |-> 0,
   timelines |-> Timelines(TimelineConfig(start, duration, inc),
                           TimelineConfig(start, duration, inc),
                           TimelineConfig(start, duration, inc))]

DependencyChoices == { << >>, << "a" >>, << "b" >> }

ScheduledDefs ==
  { With(EmptyDef, "milestones",
         << EntryWith("milestones", "a", [dependsOnMilestones |-> da],
                      Schedule(sa, ta, TRUE)),
            EntryWith("milestones", "b", [dependsOnMilestones |-> db],
                      Schedule(sb, tb, inc)) >>) :
      da \in DependencyChoices, db \in DependencyChoices,
      sa \in 0..1, ta \in 0..1, sb \in 0..1, tb \in 0..1, inc \in BOOLEAN }

ScalarDefs == RiskDefs \cup RepositoryDefs \cup AssumptionDefs \cup DecisionDefs

DefSpace ==
  ScalarDefs \cup MutualMilestonesWithAssumption \cup ScheduledDefs \cup
  LeafDefs \cup
  UNION { SameKindDefs(cat) : cat \in TwoPassKinds }
  \cup GatedDefs
  \cup UNION { CrossKindDefs(cat) : cat \in CategorySet }
  \cup { WholePlan(w) : w \in BOOLEAN }
  \cup DefectiveDefs

\* The documents content/{kind}/{id}.mdx of every entry of a definition.
Documents(d) ==
  UNION { { <<NodeKind(c), d[c][i].id>> : i \in 1..Len(d[c]) } : c \in CategorySet }

\* The content directory holds the document of every entry, except that
\* the documents of the entries called "c", of whatever kind, and of the
\* primitive "p" may be missing.
MayBeMissing == { << NodeKind(c), "c" >> : c \in CategorySet } \cup { << "primitive", "p" >> }

ContentStores(d) ==
  { Documents(d) \ missing : missing \in SUBSET (Documents(d) \cap MayBeMissing) }

\* ------------------------------------------------------------------------
\* main (kernel/compile/compile.ts)
\* ------------------------------------------------------------------------

Running == -1

NoValidation == [valid |-> FALSE, errors |-> << >>]

NoRelations == [threw |-> FALSE, maps |-> << >>]

Init ==
  /\ def \in DefSpace
  /\ content \in ContentStores(def)
  /\ pc = "load"
  /\ heap = << >>
  /\ PLAN = << >>
  /\ buildError = NoError
  /\ validation = NoValidation
  /\ relations = NoRelations
  /\ log = << >>
  /\ exitCode = Running

\* Step 1: import("../../plan/graph.js") evaluates defineGraph; a throw
\* rejects the import and main().catch exits with status 1.
LoadPlan ==
  /\ pc = "load"
  /\ \E built \in { defineGraph(def) } :
         /\ buildError' = built.err
         /\ heap' = built.heap
         /\ PLAN' = built.nodes
         /\ pc' = IF built.err = NoError THEN "validate" ELSE "exit"
         /\ exitCode' = IF built.err = NoError THEN Running ELSE 1
  /\ log' = Append(log, "defineGraph")
  /\ UNCHANGED <<def, content, validation, relations>>

\* A validation step that goes on to derive whatever the result.
ValidateAndContinue ==
  /\ pc = "validate"
  /\ validation' = validatePlan(heap, PLAN, content)
  /\ pc' = "derive"
  /\ exitCode' = Running
  /\ log' = Append(log, "validatePlan")
  /\ UNCHANGED <<def, content, heap, PLAN, buildError, relations>>

\* Step 2: validatePlan(PLAN); any error prints the list and exits 1.
Validate ==
  /\ pc = "validate"
  /\ \E result \in { validatePlan(heap, PLAN, content) } :
         /\ validation' = result
         /\ pc' = IF result.valid THEN "derive" ELSE "exit"
         /\ exitCode' = IF result.valid THEN Running ELSE 1
  /\ log' = Append(log, "validatePlan")
  /\ UNCHANGED <<def, content, heap, PLAN, buildError, relations>>

\* A derivation step that reverses the node sequence in place.
DeriveRelationsReversing ==
  /\ pc = "derive"
  /\ \E derived \in { deriveRelations(heap, PLAN) } :
         /\ relations' = derived
         /\ pc' = IF derived.threw THEN "exit" ELSE "mkdir"
         /\ exitCode' = IF derived.threw THEN 1 ELSE Running
  /\ log' = Append(log, "deriveRelations")
  /\ PLAN' = [i \in 1..Len(PLAN) |-> PLAN[Len(PLAN) + 1 - i]]
  /\ UNCHANGED <<def, content, heap, buildError, validation>>

\* Step 3: deriveRelations(PLAN); a throw reaches main().catch.
DeriveRelations ==
  /\ pc = "derive"
  /\ \E derived \in { deriveRelations(heap, PLAN) } :
         /\ relations' = derived
         /\ pc' = IF derived.threw THEN "exit" ELSE "mkdir"
         /\ exitCode' = IF derived.threw THEN 1 ELSE Running
  /\ log' = Append(log, "deriveRelations")
  /\ UNCHANGED <<def, content, heap, PLAN, buildError, validation>>

\* Steps 4 to 7 write to the file system; a write that fails throws and
\* main().catch exits with status 1.
OutputStep(name, next) ==
  /\ log' = Append(log, name)
  /\ \E ok \in BOOLEAN :
       /\ pc' = IF ok THEN next ELSE "exit"
       /\ exitCode' = IF ok THEN (IF next = "exit" THEN 0 ELSE Running) ELSE 1
  /\ UNCHANGED <<def, content, heap, PLAN, buildError, validation, relations>>

EnsureDirectories ==
  /\ pc = "mkdir"
  /\ OutputStep("mkdirSync", "pages")

WritePages ==
  /\ pc = "pages"
  /\ OutputStep("writePages", "sidebar")

WriteSidebar ==
  /\ pc = "sidebar"
  /\ OutputStep("writeSidebar", "graphJson")

\* After graph.json is written main returns and the process ends with 0.
WriteGraphJson ==
  /\ pc = "graphJson"
  /\ OutputStep("writeGraphJson", "exit")

Next ==
  \/ LoadPlan
  \/ Validate
  \/ DeriveRelations
  \/ EnsureDirectories
  \/ WritePages
  \/ WriteSidebar
  \/ WriteGraphJson

Spec == Init /\ [][Next]_vars

\* ------------------------------------------------------------------------
\* Properties
\* ------------------------------------------------------------------------

\* defineGraph has returned a node sequence.
Built == pc # "load" /\ buildError = NoError

\* validatePlan has returned.
Validated == pc \notin { "load", "validate" } /\ buildError = NoError

\* deriveRelations has returned its maps.
DerivedMaps == Len(log) >= 3 /\ ~relations.threw

CategoryOf(kind) == CHOOSE c \in CategorySet : NodeKind(c) = kind

\* How often x occurs in the sequence seq.
Count(seq, x) == Cardinality({ i \in 1..Len(seq) : seq[i] = x })

\* How often instance b occurs in relation field d of instance a.
Occurrences(a, d, b) ==
  IF d.field \notin DOMAIN heap[a].r THEN 0
  ELSE IF d.mode = "list" THEN Count(heap[a].r[d.field], b)
  ELSE IF heap[a].r[d.field] = b THEN 1 ELSE 0

\* The instances that instance n references through any relation field.
Targets(n) ==
  LET ds == RelationFields(CategoryOf(heap[n].kind))
  IN  UNION { IF ds[i].mode = "list"
              THEN Range(heap[n].r[ds[i].field])
              ELSE { heap[n].r[ds[i].field] } \ { 0 } : i \in 1..Len(ds) }

\* Every relation target of every returned node is itself returned.
Closed == \A n \in Range(PLAN) : Targets(n) \subseteq Range(PLAN)

\* The returned node of a kind and id.
NodeOf(kind, id) == CHOOSE n \in Range(PLAN) : heap[n].kind = kind /\ heap[n].id = id

\* The ids that entry e declares in relation d.
Declared(e, d) ==
  IF d.mode = "list" THEN Range(ListIds(e, d)) ELSE { SingleId(e, d) } \ { "" }

\* The reverse map that the nodes of a kind feed from a relation field.
ReverseMap(kind, field) ==
  Derivations[CHOOSE k \in 1..Len(Derivations) :
                Derivations[k].kind = kind /\ Derivations[k].field = field].map

\* C1: after defineGraph returns, every node referenced through any
\* relation field of a returned node is an instance of the returned
\* sequence (one canonical instance per id), whatever the declaration order
\* and also when the referenced node was rebuilt later.
C1_CanonicalInstances == Built => Closed

\* C2: after a successful build, deriveRelations gives for each declared
\* same-kind edge (A names B) a reverse map whose slot keyed by the
\* returned node B contains the returned node A.
C2_SameKindReverseEdges ==
  DerivedMaps =>
    \A cat \in TwoPassKinds :
      \A k \in 1..Len(Pass2Fields(cat)) :
        \A i \in 1..Len(def[cat]) :
          \A idB \in Declared(def[cat][i], Pass2Fields(cat)[k]) :
            NodeOf(NodeKind(cat), def[cat][i].id) \in
              Range(relations.maps[ReverseMap(NodeKind(cat), Pass2Fields(cat)[k].field)]
                                  [NodeOf(NodeKind(cat), idB)])

\* C3: when every relation target is an element of the sequence, then for
\* every forward relation and its reverse map the number of times A occurs
\* in the slot of B equals the number of times B occurs in the relation of
\* A (none for a node of another kind).
C3_ReverseIndexDuality ==
  (DerivedMaps /\ Closed) =>
    \A k \in 1..Len(Derivations) :
      \A a \in Range(PLAN), b \in Range(PLAN) :
        Count(relations.maps[Derivations[k].map][b], a) =
          IF heap[a].kind = Derivations[k].kind
          THEN Occurrences(a, Derivations[k], b)
          ELSE 0

\* A closed sequence in which one node names another twice: the slot holds
\* it twice.
C3_Witness ==
  /\ DerivedMaps
  /\ Closed
  /\ \E k \in 1..Len(Derivations) :
       \E a \in Range(PLAN), b \in Range(PLAN) :
         /\ heap[a].kind = Derivations[k].kind
         /\ Occurrences(a, Derivations[k], b) = 2
         /\ Count(relations.maps[Derivations[k].map][b], a) = 2

\* C10: in the result of deriveRelations every reverse map has every node
\* of the input sequence as key, and a node that nothing references
\* through the relation maps to the empty sequence.
C10_EveryNodeIsAKey ==
  DerivedMaps =>
    \A k \in 1..Len(Derivations) :
      /\ DOMAIN relations.maps[Derivations[k].map] = Range(PLAN)
      /\ \A b \in Range(PLAN) :
           (\A a \in Range(PLAN) :
              heap[a].kind = Derivations[k].kind => Occurrences(a, Derivations[k], b) = 0)
           => relations.maps[Derivations[k].map][b] = << >>

\* Several nodes, one of them referenced by another and one referenced by
\* none: every one is a key of the map.
C10_Witness ==
  /\ DerivedMaps
  /\ Len(PLAN) >= 3
  /\ \E k \in 1..Len(Derivations) :
       /\ DOMAIN relations.maps[Derivations[k].map] = Range(PLAN)
       /\ \E b \in Range(PLAN) : relations.maps[Derivations[k].map][b] # << >>
       /\ \E b \in Range(PLAN) : relations.maps[Derivations[k].map][b] = << >>

\* The ids of the entries of a category.
IdsOf(cat) == { def[cat][i].id : i \in 1..Len(def[cat]) }

\* The positions of the returned sequence that hold a node with this id.
Sharing(id) == { i \in 1..Len(PLAN) : heap[PLAN[i]].id = id }

\* C4 as stated: no two nodes of the returned sequence share an id, also
\* when the same id is a key under two categories.
C4_GloballyUniqueIds ==
  Built => \A i \in 1..Len(PLAN), j \in 1..Len(PLAN) :
             i # j => heap[PLAN[i]].id # heap[PLAN[j]].id

\* C4 as amended: no two nodes of the returned sequence have the same kind
\* and the same id; an id that is a key under two categories yields one
\* node of each kind, both with that id.
C4_UniqueIdsPerKind ==
  Built =>
    /\ \A i \in 1..Len(PLAN), j \in 1..Len(PLAN) :
         (i # j /\ heap[PLAN[i]].id = heap[PLAN[j]].id)
           => heap[PLAN[i]].kind # heap[PLAN[j]].kind
    /\ \A cat \in CategorySet : \A id \in IdsOf(cat) :
         \E i \in Sharing(id) : heap[PLAN[i]].kind = NodeKind(cat)

\* A returned sequence with two nodes of different kinds under one id.
C4_Witness ==
  /\ Built
  /\ \E i \in 1..Len(PLAN), j \in 1..Len(PLAN) :
       /\ i # j
       /\ heap[PLAN[i]].id = heap[PLAN[j]].id
       /\ heap[PLAN[i]].kind # heap[PLAN[j]].kind

\* The duplicate-id errors of the result that carry this id.
DuplicateErrors(id) ==
  Cardinality({ k \in 1..Len(validation.errors) :
                  /\ validation.errors[k].text = "Duplicate node ID"
                  /\ validation.errors[k].nodeId = id })

PlanIds == { heap[PLAN[i]].id : i \in 1..Len(PLAN) }

\* C5 as stated: an id on k >= 2 nodes has a duplicate-id error for every
\* one of the k nodes, the first included; an id on one node has none.
C5_ErrorForEveryNodeSharing ==
  Validated =>
    \A id \in PlanIds :
      DuplicateErrors(id) =
        IF Cardinality(Sharing(id)) >= 2 THEN Cardinality(Sharing(id)) ELSE 0

\* C5 as amended: an id on k nodes has k - 1 duplicate-id errors, one for
\* each node after the first that carries it; an id on one node has none.
C5_ErrorForEveryLaterOccurrence ==
  Validated => \A id \in PlanIds : DuplicateErrors(id) = Cardinality(Sharing(id)) - 1

\* An id on three nodes, reported twice.
C5_Witness ==
  /\ Validated
  /\ \E id \in PlanIds : Cardinality(Sharing(id)) = 3 /\ DuplicateErrors(id) = 2

\* The errors that each node from the i-th on produces when validated on
\* its own.
RECURSIVE OwnErrors(_)
OwnErrors(i) ==
  IF i > Len(PLAN) THEN << >>
  ELSE ValidateNode(heap[PLAN[i]], content, << >>) \o OwnErrors(i + 1)

\* C6: the error list of validatePlan is the duplicate-id errors, then the
\* errors each node produces on its own, then the timeline errors; no
\* violation suppresses another.
C6_EveryViolationReported ==
  Validated =>
    validation.errors =
      DuplicateIds(heap, PLAN, [i |-> 1, seenIds |-> { }, errors |-> << >>])
      \o OwnErrors(1)
      \o TimelinePhase(heap, Filter(heap, PLAN, "milestone", 1), << >>)

HasError(text) == \E k \in 1..Len(validation.errors) : validation.errors[k].text = text

\* One run that reports a duplicate id, a missing document, a kind-specific
\* violation on two different nodes and a timeline violation.
C6_Witness ==
  /\ Validated
  /\ HasError("Duplicate node ID")
  /\ HasError("Missing content file")
  /\ HasError("Capability must depend on at least one primitive")
  /\ HasError("Milestone expectedRevenue must be non-negative")
  /\ HasError("Speed of Light timeline exceeds 12 months")

\* The references of the definition that name an id which is not a key of
\* the category of the target kind.
Unresolved ==
  UNION { UNION { UNION { { [cat |-> cat, id |-> def[cat][i].id, d |-> RelationFields(cat)[k],
                             ref |-> ref] :
                              ref \in Declared(def[cat][i], RelationFields(cat)[k])
                                        \ IdsOf(RelationFields(cat)[k].target) } :
                          k \in 1..Len(RelationFields(cat)) } :
                  i \in 1..Len(def[cat]) } :
          cat \in CategorySet }

\* C7: when a relation field names an id that is not a key of the category
\* of the target kind, defineGraph throws an error naming the referencing
\* node's kind, its id and the unresolved id, and returns no sequence.
C7_UnresolvedReferenceThrows ==
  (pc # "load" /\ Unresolved # { }) =>
    /\ PLAN = << >>
    /\ \E u \in Unresolved :
         /\ buildError.label = ErrorLabel(u.cat)
         /\ buildError.id = u.id
         /\ buildError.ref = u.ref

\* A throw for an id that exists, but under another kind.
C7_Witness ==
  /\ pc # "load"
  /\ buildError # NoError
  /\ PLAN = << >>
  /\ \E u \in Unresolved :
       /\ buildError.ref = u.ref
       /\ \E cat \in CategorySet \ { u.d.target } : u.ref \in IdsOf(cat)

\* The steps of main in source order.
Steps ==
  << "defineGraph", "validatePlan", "deriveRelations", "mkdirSync", "writePages",
     "writeSidebar", "writeGraphJson" >>

\* C8: the steps of the compile entry point run in the order load, validate,
\* derive, write pages, write sidebar, write graph.json; a build that throws
\* or a validation with errors exits with status 1 before deriveRelations
\* and before anything is written; status 0 is reached only after a build
\* that succeeded and a validation with zero errors.
C8_CompileOrderAndStatus ==
  /\ log = SubSeq(Steps, 1, Len(log))
  /\ (pc # "load" /\ buildError # NoError) => (exitCode = 1 /\ Len(log) = 1)
  /\ (Len(log) >= 2 /\ Len(validation.errors) > 0) => (exitCode = 1 /\ Len(log) = 2)
  /\ exitCode = 0 =>
       /\ log = Steps
       /\ buildError = NoError
       /\ validation.valid
       /\ validation.errors = << >>

\* A run through every step that ends with status 0.
C8_Witness == exitCode = 0 /\ log = Steps /\ pc = "exit"

\* C9: validatePlan returns valid = true exactly when its error list is
\* empty and valid = false exactly when it holds at least one error.
C9_ValidIffNoErrors == Validated => (validation.valid <=> Len(validation.errors) = 0)

\* A result with exactly one error, which is not valid.
C9_Witness == Validated /\ Len(validation.errors) = 1 /\ ~validation.valid

\* C11: deriveRelations completes without raising an error on every node
\* sequence that a successful defineGraph returns, whatever kinds it holds,
\* Assumption and Decision nodes included.
C11_DeriveNeverThrows == Len(log) >= 3 => ~relations.threw

\* The milestone entries of the definition and their timeline of a variant.
MilestoneEntries == def["milestones"]

ConfigOf(i, variant) == MilestoneEntries[i].a.timelines[variant]

\* Some milestone included in the speed-of-light variant ends after month 12.
Overrun ==
  \E i \in 1..Len(MilestoneEntries) :
    /\ ConfigOf(i, "speedOfLight").included
    /\ ConfigOf(i, "speedOfLight").startMonth + ConfigOf(i, "speedOfLight").durationMonths > 12

DeadlineErrors(errors) ==
  { k \in 1..Len(errors) : errors[k].nodeId = "timeline-speedOfLight" }

\* The definition with the speed-of-light durations lowered until no
\* milestone ends after month 12.
Lowered(d) ==
  [d EXCEPT !["milestones"] =
     [i \in DOMAIN @ |->
        [@[i] EXCEPT !.a.timelines.speedOfLight.durationMonths =
           IF @ + d["milestones"][i].a.timelines.speedOfLight.startMonth > 12
           THEN 12 - d["milestones"][i].a.timelines.speedOfLight.startMonth ELSE @]]]

\* The errors reported against the nodes that are not milestones.
ElsewhereErrors(h, nodes, errors) ==
  SelectSeq(errors,
            LAMBDA e : \E i \in 1..Len(nodes) :
                         h[nodes[i]].kind # "milestone" /\ h[nodes[i]].id = e.nodeId)

ValidationOf(built) == validatePlan(built.heap, built.nodes, content)

\* C13: validatePlan reports one error with nodeId "timeline-speedOfLight"
\* when some milestone included in the speed-of-light variant ends after
\* month 12, and none otherwise: skipped milestones do not count and the
\* other variants are not bounded. Lowering the durations until no included
\* milestone ends after month 12 removes the error and leaves the errors
\* against the nodes that are not milestones as they were.
C13_SpeedOfLightDeadline ==
  Validated =>
    /\ Cardinality(DeadlineErrors(validation.errors)) = IF Overrun THEN 1 ELSE 0
    /\ \A built \in { defineGraph(Lowered(def)) } :
         \A lowered \in { ValidationOf(built) } :
           /\ DeadlineErrors(lowered.errors) = { }
           /\ ElsewhereErrors(built.heap, built.nodes, lowered.errors)
                = ElsewhereErrors(heap, PLAN, validation.errors)

\* A milestone that ends at month 13 of the speed-of-light variant next to
\* one that is skipped there, reported once, with an error against a
\* capability in the same run.
C13_Witness ==
  /\ Validated
  /\ Overrun
  /\ \E i \in 1..Len(MilestoneEntries) : ~ConfigOf(i, "speedOfLight").included
  /\ Cardinality(DeadlineErrors(validation.errors)) = 1
  /\ HasError("Capability must depend on at least one primitive")

\* A skipped milestone that ends at month 13 of the speed-of-light variant
\* next to an included one that ends in time: no deadline error.
C13_WitnessSkipped ==
  /\ Validated
  /\ ~Overrun
  /\ \E i \in 1..Len(MilestoneEntries) :
       /\ ~ConfigOf(i, "speedOfLight").included
       /\ ConfigOf(i, "speedOfLight").durationMonths > 12
  /\ \E i \in 1..Len(MilestoneEntries) : ConfigOf(i, "speedOfLight").included

\* The ids that the i-th milestone entry gives in dependsOnMilestones.
DependencyIds(i) == ListIds(MilestoneEntries[i], Pass2Fields("milestones")[1])

MilestoneIds == { MilestoneEntries[i].id : i \in 1..Len(MilestoneEntries) }

\* The timeline of variant v of the milestone entry called id.
ConfigById(id, v) ==
  ConfigOf(CHOOSE j \in 1..Len(MilestoneEntries) : MilestoneEntries[j].id = id, v)

\* The errors against milestone a about its dependency b in variant v.
TimelineErrors(text, a, b, v) ==
  { k \in 1..Len(validation.errors) :
      /\ validation.errors[k].text = text
      /\ validation.errors[k].nodeId = a
      /\ validation.errors[k].p1 = v
      /\ validation.errors[k].p2 = b }

SkippedErrors(a, b, v) == TimelineErrors("included but depends on skipped milestone", a, b, v)

\* C14: in every variant V, a milestone A included in V has one error, with
\* nodeId A and naming A, B and V, for each entry B of its
\* dependsOnMilestones that is skipped in V; there is none when A is
\* skipped in V or B is included in V.
C14_SkippedDependencyReported ==
  Validated =>
    \A k \in 1..Len(Variants), i \in 1..Len(MilestoneEntries), b \in MilestoneIds :
      Cardinality(SkippedErrors(MilestoneEntries[i].id, b, Variants[k])) =
        IF /\ ConfigOf(i, Variants[k]).included
           /\ ~ConfigById(b, Variants[k]).included
        THEN Count(DependencyIds(i), b) ELSE 0

\* Milestone "b" is included in the aggressive variant, its dependency "a"
\* is skipped there, and the one error against "b" names "a" and the variant.
C14_Witness ==
  /\ Validated
  /\ \E i \in 1..Len(MilestoneEntries), b \in MilestoneIds :
       /\ Count(DependencyIds(i), b) = 1
       /\ ConfigOf(i, "aggressive").included
       /\ ~ConfigById(b, "aggressive").included
       /\ Cardinality(SkippedErrors(MilestoneEntries[i].id, b, "aggressive")) = 1
       /\ SkippedErrors(MilestoneEntries[i].id, b, "expected") = { }

\* Both "b" and its dependency "a" are skipped in a variant: no error.
C14_WitnessBothSkipped ==
  /\ Validated
  /\ \E k \in 1..Len(Variants), i \in 1..Len(MilestoneEntries), b \in MilestoneIds :
       /\ Count(DependencyIds(i), b) = 1
       /\ ~ConfigOf(i, Variants[k]).included
       /\ ~ConfigById(b, Variants[k]).included
       /\ SkippedErrors(MilestoneEntries[i].id, b, Variants[k]) = { }

LateErrors(a, b, v) == TimelineErrors("starts before dependency ends", a, b, v)

\* C15: in every variant V in which a milestone A and its dependency B are
\* both included, there is an error against A exactly when B ends (start
\* plus duration) after the month A starts, ending in that very month being
\* accepted; the error names B and gives A's start month and B's end month.
\* There is none for a pair of which either milestone is skipped in V.
C15_LateDependencyReported ==
  Validated =>
    \A k \in 1..Len(Variants), i \in 1..Len(MilestoneEntries), b \in MilestoneIds :
      /\ Cardinality(LateErrors(MilestoneEntries[i].id, b, Variants[k])) =
           IF /\ ConfigOf(i, Variants[k]).included
              /\ ConfigById(b, Variants[k]).included
              /\ ConfigById(b, Variants[k]).startMonth + ConfigById(b, Variants[k]).durationMonths
                   > ConfigOf(i, Variants[k]).startMonth
           THEN Count(DependencyIds(i), b) ELSE 0
      /\ \A e \in LateErrors(MilestoneEntries[i].id, b, Variants[k]) :
           /\ validation.errors[e].n1 = ConfigOf(i, Variants[k]).startMonth
           /\ validation.errors[e].n2 =
                ConfigById(b, Variants[k]).startMonth + ConfigById(b, Variants[k]).durationMonths

\* "a" ends at month 13 of a variant, "b" starts at month 2: one error
\* against "b" with the months 2 and 13.
C15_Witness ==
  /\ Validated
  /\ \E k \in 1..Len(Variants), i \in 1..Len(MilestoneEntries), b \in MilestoneIds :
       /\ Count(DependencyIds(i), b) = 1
       /\ Cardinality(LateErrors(MilestoneEntries[i].id, b, Variants[k])) = 1
       /\ \A e \in LateErrors(MilestoneEntries[i].id, b, Variants[k]) :
            validation.errors[e].n1 = 2 /\ validation.errors[e].n2 = 13

\* "a" ends at month 2 of a variant and "b" starts at month 2: accepted.
C15_WitnessEqual ==
  /\ Validated
  /\ \E k \in 1..Len(Variants), i \in 1..Len(MilestoneEntries), b \in MilestoneIds :
       /\ Count(DependencyIds(i), b) = 1
       /\ ConfigOf(i, Variants[k]).included
       /\ ConfigById(b, Variants[k]).included
       /\ ConfigOf(i, Variants[k]).startMonth = 2
       /\ ConfigById(b, Variants[k]).durationMonths = 2
       /\ LateErrors(MilestoneEntries[i].id, b, Variants[k]) = { }

\* "a" would end late but one of the two is skipped in the variant: no
\* timing error.
C15_WitnessSkipped ==
  /\ Validated
  /\ \E k \in 1..Len(Variants), i \in 1..Len(MilestoneEntries), b \in MilestoneIds :
       /\ Count(DependencyIds(i), b) = 1
       /\ ~ConfigOf(i, Variants[k]).included
       /\ ConfigById(b, Variants[k]).included
       /\ ConfigById(b, Variants[k]).durationMonths = 13
       /\ LateErrors(MilestoneEntries[i].id, b, Variants[k]) = { }

\* The missing-content errors against a node that name content/{kind}/{id}.mdx.
MissingErrors(kind, id) ==
  { k \in 1..Len(validation.errors) :
      /\ validation.errors[k].text = "Missing content file"
      /\ validation.errors[k].nodeId = id
      /\ validation.errors[k].p1 = kind
      /\ validation.errors[k].p2 = id }

\* C16: every node of every kind has one missing-content error against its
\* id, naming content/{kind}/{id}.mdx, when the content store holds no
\* document of its kind and id, and none when it holds one, whether or not
\* the kind has checks of its own and whether or not they fail.
C16_MissingContentReported ==
  Validated =>
    \A n \in Range(PLAN) :
      Cardinality(MissingErrors(heap[n].kind, heap[n].id)) =
        IF << heap[n].kind, heap[n].id >> \in content THEN 0 ELSE 1

\* A primitive (no checks of its own) and a capability whose own check
\* fails, both without a document, each reported once.
C16_Witness ==
  /\ Validated
  /\ << "primitive", "p" >> \notin content
  /\ << "capability", "c" >> \notin content
  /\ Cardinality(MissingErrors("primitive", "p")) = 1
  /\ Cardinality(MissingErrors("capability", "c")) = 1
  /\ HasError("Capability must depend on at least one primitive")

\* Two nodes of different kinds with one id, the document of one of them
\* missing: reported for that one only.
C16_WitnessOtherKind ==
  /\ Validated
  /\ \E n, m \in Range(PLAN) :
       /\ heap[n].id = heap[m].id
       /\ << heap[n].kind, heap[n].id >> \notin content
       /\ << heap[m].kind, heap[m].id >> \in content
       /\ Cardinality(MissingErrors(heap[n].kind, heap[n].id)) = 1
       /\ MissingErrors(heap[m].kind, heap[m].id) = { }

\* The positions of the returned sequence that hold a node of a kind and id.
Positions(kind, id) ==
  { k \in 1..Len(PLAN) : heap[PLAN[k]].kind = kind /\ heap[PLAN[k]].id = id }

\* C17: when the definition builds, the returned sequence holds exactly one
\* node for each (category, id) entry of the definition and no other node;
\* the node has the kind of the category, the entry's id and the entry's
\* title, which for a leaf entry written as a bare string is that string.
C17_OneNodePerEntry ==
  Built =>
    /\ \A cat \in CategorySet : \A i \in 1..Len(def[cat]) :
         /\ Cardinality(Positions(NodeKind(cat), def[cat][i].id)) = 1
         /\ \A k \in Positions(NodeKind(cat), def[cat][i].id) :
              heap[PLAN[k]].title = def[cat][i].title
    /\ \A k \in 1..Len(PLAN) :
         \E cat \in CategorySet : \E i \in 1..Len(def[cat]) :
           /\ heap[PLAN[k]].kind = NodeKind(cat)
           /\ heap[PLAN[k]].id = def[cat][i].id

\* A plan with an entry of every category, built into 21 nodes.
C17_Witness ==
  /\ Built
  /\ \A cat \in CategorySet : Len(def[cat]) = 1
  /\ Len(PLAN) = 21

\* A competitor written as a bare string next to one written as a record.
C17_WitnessBareString ==
  /\ Built
  /\ \E i, j \in 1..Len(def["competitors"]) :
       /\ def["competitors"][i].a = << >>
       /\ def["competitors"][j].a # << >>
       /\ \E k \in Positions("competitor", def["competitors"][i].id) :
            heap[PLAN[k]].title = def["competitors"][i].title

\* The ids of the instances of a relation array, in order ("" for a null or
\* undefined entry).
IdsOfRefs(refs) == [j \in 1..Len(refs) |-> IF refs[j] = 0 THEN "" ELSE heap[refs[j]].id]

\* Relation field d of returned node n holds what entry e gives for it.
AsDeclared(n, e, d) ==
  IF d.mode = "list"
  THEN /\ IdsOfRefs(heap[n].r[d.field]) = ListIds(e, d)
       /\ \A j \in 1..Len(heap[n].r[d.field]) :
            /\ heap[n].r[d.field][j] # 0
            /\ heap[heap[n].r[d.field][j]].kind = NodeKind(d.target)
  ELSE IF SingleId(e, d) = "" THEN heap[n].r[d.field] = 0
  ELSE /\ heap[n].r[d.field] # 0
       /\ heap[heap[n].r[d.field]].id = SingleId(e, d)
       /\ heap[heap[n].r[d.field]].kind = NodeKind(d.target)

\* C18: in a graph that builds, every relation field of every node holds
\* the nodes whose ids the definition lists for it, in the same order and
\* with the same repetitions; a relation left out of the definition is
\* empty, and no relation array holds a null or undefined entry.
C18_RelationsAsDeclared ==
  Built =>
    \A cat \in CategorySet : \A i \in 1..Len(def[cat]) :
      \A k \in 1..Len(RelationFields(cat)) :
        AsDeclared(NodeOf(NodeKind(cat), def[cat][i].id), def[cat][i], RelationFields(cat)[k])

\* An entry that lists "b" before "a", one that lists "a" twice and one
\* that leaves a relation out, all built.
C18_Witness ==
  /\ Built
  /\ \E cat \in CategorySet : \E i \in 1..Len(def[cat]) :
       \E k \in 1..Len(RelationFields(cat)) :
         /\ RelationFields(cat)[k].mode = "list"
         /\ ListIds(def[cat][i], RelationFields(cat)[k]) = << "b", "a" >>
         /\ IdsOfRefs(heap[NodeOf(NodeKind(cat), def[cat][i].id)].r[RelationFields(cat)[k].field])
              = << "b", "a" >>

C18_WitnessRepeated ==
  /\ Built
  /\ \E cat \in CategorySet : \E i \in 1..Len(def[cat]) :
       \E k \in 1..Len(RelationFields(cat)) :
         /\ RelationFields(cat)[k].mode = "list"
         /\ ListIds(def[cat][i], RelationFields(cat)[k]) = << "a", "a" >>
         /\ IdsOfRefs(heap[NodeOf(NodeKind(cat), def[cat][i].id)].r[RelationFields(cat)[k].field])
              = << "a", "a" >>

C18_WitnessOmitted ==
  /\ Built
  /\ \E cat \in CategorySet : \E i \in 1..Len(def[cat]) :
       \E k \in 1..Len(RelationFields(cat)) :
         /\ RelationFields(cat)[k].mode = "list"
         /\ RelationFields(cat)[k].field \notin DOMAIN def[cat][i].r
         /\ heap[NodeOf(NodeKind(cat), def[cat][i].id)].r[RelationFields(cat)[k].field] = << >>

\* The place of x in the sequence seq.
Rank(seq, x) == CHOOSE k \in 1..Len(seq) : seq[k] = x

\* The returned sequence is grouped by kind in the given order of kinds.
GroupedBy(kinds) ==
  \A i, j \in 1..Len(PLAN) :
    i < j => Rank(kinds, heap[PLAN[i]].kind) <= Rank(kinds, heap[PLAN[j]].kind)

ResolutionOrderKinds ==
  << "primitive", "supplier", "customer", "competitor", "supplier-primitive", "tooling",
     "risk", "capability", "product", "project", "milestone", "thesis", "repository",
     "constraint", "proxy-metric", "competency", "diagnosis", "action-gate",
     "guiding-policy", "assumption", "decision" >>

ReturnedOrderKinds ==
  << "primitive", "supplier", "supplier-primitive", "tooling", "customer", "competitor",
     "risk", "capability", "product", "project", "milestone", "repository", "thesis",
     "constraint", "proxy-metric", "competency", "diagnosis", "action-gate",
     "guiding-policy", "assumption", "decision" >>

\* C19 as stated: the returned sequence is grouped by kind in the
\* resolution order: Primitive, Supplier, Customer, Competitor,
\* SupplierPrimitive, Tooling, Risk, Capability, Product, Project, Milestone,
\* Thesis, Repository, Constraint, ProxyMetric, Competency, Diagnosis,
\* ActionGate, GuidingPolicy, Assumption, Decision.
C19_GroupedInResolutionOrder == Built => GroupedBy(ResolutionOrderKinds)

\* C19 as amended: the returned sequence is grouped by kind in the order
\* Primitive, Supplier, SupplierPrimitive, Tooling, Customer, Competitor,
\* Risk, Capability, Product, Project, Milestone, Repository, Thesis,
\* Constraint, ProxyMetric, Competency, Diagnosis, ActionGate,
\* GuidingPolicy, Assumption, Decision.
C19_GroupedInReturnedOrder == Built => GroupedBy(ReturnedOrderKinds)

\* A built plan with a node of every kind.
C19_Witness ==
  /\ Built
  /\ Len(PLAN) = Len(ReturnedOrderKinds)
  /\ \A k \in 1..Len(ReturnedOrderKinds) : heap[PLAN[k]].kind = ReturnedOrderKinds[k]

\* The categories with a relation that must not be empty, the relation and
\* the message of the error.
Required ==
  << [cat |-> "thesis", field |-> "justifiedBy",
      text |-> "Thesis must be justified by at least one capability"],
     [cat |-> "capabilities", field |-> "dependsOn",
      text |-> "Capability must depend on at least one primitive"],
     [cat |-> "products", field |-> "enabledBy",
      text |-> "Product must be enabled by at least one capability"],
     [cat |-> "diagnoses", field |-> "evidencedBy",
      text |-> "Diagnosis must be evidenced by at least one risk"],
     [cat |-> "guidingPolicies", field |-> "leveragesCompetencies",
      text |-> "Guiding policy must leverage at least one competency"] >>

ErrorsWith(id, text) ==
  { k \in 1..Len(validation.errors) :
      validation.errors[k].nodeId = id /\ validation.errors[k].text = text }

\* What entry e lists in a relation field ([] when it is left out).
Listed(e, field) == IF field \in DOMAIN e.r THEN e.r[field] ELSE << >>

\* C20: a Thesis with empty justifiedBy, a Capability with empty dependsOn,
\* a Product with empty enabledBy, a Diagnosis with empty evidencedBy and a
\* GuidingPolicy with empty leveragesCompetencies each have exactly one
\* error of their kind against their id (for the capability "Capability
\* must depend on at least one primitive"); a node whose required relation
\* is not empty has none.
C20_RequiredRelationReported ==
  Validated =>
    \A q \in 1..Len(Required) : \A i \in 1..Len(def[Required[q].cat]) :
      Cardinality(ErrorsWith(def[Required[q].cat][i].id, Required[q].text)) =
        IF Listed(def[Required[q].cat][i], Required[q].field) = << >> THEN 1 ELSE 0

\* A node of one of the five kinds with its required relation empty and
\* another relation not empty, reported once.
C20_Witness ==
  /\ Validated
  /\ \E q \in 1..Len(Required) : \E i \in 1..Len(def[Required[q].cat]) :
       /\ Listed(def[Required[q].cat][i], Required[q].field) = << >>
       /\ \E f \in DOMAIN def[Required[q].cat][i].r :
            def[Required[q].cat][i].r[f] \notin { << >>, "" }
       /\ Cardinality(ErrorsWith(def[Required[q].cat][i].id, Required[q].text)) = 1

\* The errors reported against an id.
ErrorsAgainst(id) ==
  { k \in 1..Len(validation.errors) : validation.errors[k].nodeId = id }

\* The status a risk entry gives, "" when it gives none.
RiskStatusOf(e) == IF "status" \in DOMAIN e.a THEN e.a.status ELSE ""

UpstreamOf(e) == IF "upstream" \in DOMAIN e.r THEN e.r.upstream ELSE ""

RepositoryEntries == def["repositories"]

\* C22: a Repository has the error "Fork repository must specify an
\* upstream repository" exactly when its repoType is fork and it has no
\* upstream, and the error that only forks have an upstream exactly when
\* its repoType is not fork and it has one; a fork without upstream whose
\* stack level is in 0..4, whose url starts with https:// and whose
\* document exists has exactly one error.
C22_ForkAndUpstream ==
  Validated =>
    \A i \in 1..Len(RepositoryEntries) :
      /\ Cardinality(ErrorsWith(RepositoryEntries[i].id,
                                "Fork repository must specify an upstream repository")) =
           IF RepositoryEntries[i].a.repoType = "fork" /\ UpstreamOf(RepositoryEntries[i]) = ""
           THEN 1 ELSE 0
      /\ Cardinality(ErrorsWith(RepositoryEntries[i].id,
                                "Only fork repositories should have an upstream")) =
           IF RepositoryEntries[i].a.repoType # "fork" /\ UpstreamOf(RepositoryEntries[i]) # ""
           THEN 1 ELSE 0
      /\ ( /\ RepositoryEntries[i].a.repoType = "fork"
           /\ UpstreamOf(RepositoryEntries[i]) = ""
           /\ RepositoryEntries[i].a.stackLevel \in 0..4
           /\ StartsWith(RepositoryEntries[i].a.url, Https)
           /\ << "repository", RepositoryEntries[i].id >> \in content
           /\ Cardinality(Sharing(RepositoryEntries[i].id)) = 1 )
         => Cardinality(ErrorsAgainst(RepositoryEntries[i].id)) = 1

\* A fork without upstream, otherwise valid, with its one error.
C22_Witness ==
  /\ Validated
  /\ \E i \in 1..Len(RepositoryEntries) :
       /\ RepositoryEntries[i].a.repoType = "fork"
       /\ UpstreamOf(RepositoryEntries[i]) = ""
       /\ RepositoryEntries[i].a.stackLevel = 4
       /\ StartsWith(RepositoryEntries[i].a.url, Https)
       /\ Cardinality(ErrorsAgainst(RepositoryEntries[i].id)) = 1
       /\ ErrorsAgainst(RepositoryEntries[i].id)
            = ErrorsWith(RepositoryEntries[i].id,
                         "Fork repository must specify an upstream repository")

\* A dependency repository with an upstream, and a fork with one.
C22_WitnessUpstream ==
  /\ Validated
  /\ \E i \in 1..Len(RepositoryEntries) :
       /\ RepositoryEntries[i].a.repoType = "dependency"
       /\ UpstreamOf(RepositoryEntries[i]) # ""
       /\ Cardinality(ErrorsWith(RepositoryEntries[i].id,
                                 "Only fork repositories should have an upstream")) = 1

C22_WitnessForkWithUpstream ==
  /\ Validated
  /\ \E i \in 1..Len(RepositoryEntries) :
       /\ RepositoryEntries[i].a.repoType = "fork"
       /\ UpstreamOf(RepositoryEntries[i]) # ""
       /\ StartsWith(RepositoryEntries[i].a.url, Https)
       /\ RepositoryEntries[i].a.stackLevel = 0
       /\ ErrorsAgainst(RepositoryEntries[i].id) = { }

UrlErrors(id) == ErrorsWith(id, "Repository URL must start with https://")

\* C23: every Repository whose url does not start with "https://" has a
\* URL error, whatever the string, the empty string included, and no
\* Repository whose url starts with "https://" has one.
C23_UrlMustBeHttps ==
  Validated =>
    \A i \in 1..Len(RepositoryEntries) :
      (UrlErrors(RepositoryEntries[i].id) # { })
        <=> \E j \in 1..Len(RepositoryEntries) :
              /\ RepositoryEntries[j].id = RepositoryEntries[i].id
              /\ ~StartsWith(RepositoryEntries[j].a.url, Https)

AssumptionEntries == def["assumptions"]

\* The evidence an assumption entry gives ([] when it is left out).
EvidenceOf(e) == IF "currentEvidence" \in DOMAIN e.a THEN e.a.currentEvidence ELSE << >>

EvidenceErrors(id) ==
  ErrorsWith(id, "Validated assumption should have supporting evidence")
  \cup ErrorsWith(id, "Invalidated assumption should have evidence of invalidation")

\* C24: an Assumption has exactly one evidence error when its status is
\* validated or invalidated and its currentEvidence is empty, also when the
\* definition leaves currentEvidence out, and none for any other status or
\* when currentEvidence is not empty.
C24_EvidenceRequired ==
  Validated =>
    \A i \in 1..Len(AssumptionEntries) :
      Cardinality(EvidenceErrors(AssumptionEntries[i].id)) =
        IF /\ AssumptionEntries[i].a.status \in { "validated", "invalidated" }
           /\ EvidenceOf(AssumptionEntries[i]) = << >>
        THEN 1 ELSE 0

\* An invalidated assumption whose definition leaves currentEvidence out,
\* with its one evidence error.
C24_Witness ==
  /\ Validated
  /\ \E i \in 1..Len(AssumptionEntries) :
       /\ AssumptionEntries[i].a.status = "invalidated"
       /\ "currentEvidence" \notin DOMAIN AssumptionEntries[i].a
       /\ Cardinality(EvidenceErrors(AssumptionEntries[i].id)) = 1
       /\ Cardinality(ErrorsAgainst(AssumptionEntries[i].id)) = 1

\* A validated assumption with evidence: no error.
C24_WitnessEvidence ==
  /\ Validated
  /\ \E i \in 1..Len(AssumptionEntries) :
       /\ AssumptionEntries[i].a.status = "validated"
       /\ EvidenceOf(AssumptionEntries[i]) # << >>
       /\ ErrorsAgainst(AssumptionEntries[i].id) = { }

DecisionEntries == def["decisions"]

\* Four digits, a dash, two digits, a dash, two digits.
DateForm(str) ==
  /\ Len(str) = 10
  /\ \A i \in 1..10 : IF i \in { 5, 8 } THEN str[i] = "-" ELSE str[i] \in Digits

DateErrors(id) == ErrorsWith(id, "Decision review date should be in YYYY-MM-DD format")

\* C25: every Decision whose reviewDate is not of the form YYYY-MM-DD has a
\* review-date error, whatever the string, the empty string included, and a
\* Decision whose reviewDate has that form has none.
C25_ReviewDateForm ==
  Validated =>
    \A i \in 1..Len(DecisionEntries) :
      Cardinality(DateErrors(DecisionEntries[i].id)) =
        IF DateForm(DecisionEntries[i].a.reviewDate) THEN 0 ELSE 1

\* Every node that the node at position i references through relation d
\* and that is of another kind has its node (of that kind and id) at an
\* earlier position.
TargetsEarlier(i, d) ==
  \A t \in (IF d.mode = "list" THEN Range(heap[PLAN[i]].r[d.field])
            ELSE { heap[PLAN[i]].r[d.field] } \ { 0 }) :
    heap[t].kind # heap[PLAN[i]].kind =>
      \E j \in 1..(i - 1) : heap[PLAN[j]].kind = heap[t].kind /\ heap[PLAN[j]].id = heap[t].id

\* C26: the returned sequence is in dependency order: for every relation
\* between nodes of different kinds the referenced node comes earlier in
\* the sequence than the node that references it; in particular every
\* ActionGate of a Milestone's gatedBy comes before that Milestone.
C26_DependencyOrder ==
  Built =>
    \A i \in 1..Len(PLAN) :
      \A k \in 1..Len(RelationFields(CategoryOf(heap[PLAN[i]].kind))) :
        TargetsEarlier(i, RelationFields(CategoryOf(heap[PLAN[i]].kind))[k])

\* The instances ever constructed for a kind and id, in construction order
\* (heap indices): the last one is the returned node, the others were
\* replaced.
Versions(kind, id) ==
  { n \in 1..Len(heap) : heap[n].kind = kind /\ heap[n].id = id }

\* m replaced n: m is the next instance of n's kind and id.
Replaced(n, m) ==
  /\ n < m
  /\ m \in Versions(heap[n].kind, heap[n].id)
  /\ \A x \in Versions(heap[n].kind, heap[n].id) : ~(n < x /\ x < m)

\* The relation fields in which two instances differ.
Differing(n, m) == { f \in DOMAIN heap[n].r : heap[n].r[f] # heap[m].r[f] }

FieldNames(ds) == { ds[i].field : i \in 1..Len(ds) }

\* The number of rebuilds of an entry: one if it stored a same-kind
\* relation, one if it is a milestone with a gatedBy.
Rebuilds(cat, e) ==
  (IF Pass2Fields(cat) # << >> /\ ~NothingStored(e, Pass2Fields(cat)) THEN 1 ELSE 0)
  + (IF GatedByFields(cat) # << >> /\ ~NothingStored(e, GatedByFields(cat)) THEN 1 ELSE 0)

\* The ids of the returned nodes of a kind, in the order of the sequence.
RECURSIVE IdsOfKind(_, _)
IdsOfKind(kind, i) ==
  IF i > Len(PLAN) THEN << >>
  ELSE (IF heap[PLAN[i]].kind = kind THEN << heap[PLAN[i]].id >> ELSE << >>)
       \o IdsOfKind(kind, i + 1)

\* C27: when the second pass or the gatedBy back-patch replaces a node,
\* the replacement has the same id, kind and title and the same value of
\* every field but the relation being resolved (the gatedBy back-patch
\* keeps the resolved dependsOnMilestones); it stands where the replaced
\* node stood in the returned sequence; the replaced instance is left as it
\* was constructed.
C27_ReplacementKeepsTheRest ==
  Built =>
    /\ \A n, m \in 1..Len(heap) :
         Replaced(n, m) =>
           /\ heap[m].title = heap[n].title
           /\ heap[m].a = heap[n].a
           /\ \/ Differing(n, m) \subseteq FieldNames(Pass2Fields(CategoryOf(heap[n].kind)))
              \/ Differing(n, m) \subseteq FieldNames(GatedByFields(CategoryOf(heap[n].kind)))
    /\ \A cat \in CategorySet :
         /\ IdsOfKind(NodeKind(cat), 1) = [i \in 1..Len(def[cat]) |-> def[cat][i].id]
         /\ \A i \in 1..Len(def[cat]) :
              /\ Cardinality(Versions(NodeKind(cat), def[cat][i].id)) = 1 + Rebuilds(cat, def[cat][i])
              /\ \A n \in Versions(NodeKind(cat), def[cat][i].id) :
                   /\ (\A x \in Versions(NodeKind(cat), def[cat][i].id) : n <= x) =>
                        \A k \in 1..Len(Pass2Fields(cat)) :
                          heap[n].r[Pass2Fields(cat)[k].field] = Placeholder(Pass2Fields(cat)[k])
                   /\ n \notin Range(PLAN) =>
                        \A k \in 1..Len(GatedByFields(cat)) :
                          heap[n].r[GatedByFields(cat)[k].field] = << >>

\* A milestone declared first of two and replaced twice: by the second
\* pass and then by the gatedBy back-patch, which keeps its
\* dependsOnMilestones.
C27_Witness ==
  /\ Built
  /\ Len(def["milestones"]) = 2
  /\ Cardinality(Versions("milestone", def["milestones"][1].id)) = 3
  /\ heap[NodeOf("milestone", def["milestones"][1].id)].r.dependsOnMilestones # << >>
  /\ heap[NodeOf("milestone", def["milestones"][1].id)].r.gatedBy # << >>

\* A milestone with capabilities and products replaced by the gatedBy
\* back-patch.
C27_WitnessOtherRelations ==
  /\ Built
  /\ \E n, m \in 1..Len(heap) :
       /\ Replaced(n, m)
       /\ heap[n].kind = "milestone"
       /\ heap[m].r.dependsOnCapabilities # << >>
       /\ heap[m].r.products # << >>
       /\ heap[m].r.gatedBy # << >>

\* C28: validatePlan and deriveRelations leave their input as it was: the
\* step that runs either of them changes neither the node sequence (same
\* elements, same order) nor any instance (same field values, same
\* relation arrays).
C28_InputUnchanged ==
  [][(pc \in { "validate", "derive" }) => (PLAN' = PLAN /\ heap' = heap)]_vars

\* Both have run on a sequence of several nodes with relations between
\* them.
C28_Witness ==
  /\ Len(log) >= 3
  /\ log[2] = "validatePlan" /\ log[3] = "deriveRelations"
  /\ Len(PLAN) >= 2
  /\ \E n \in Range(PLAN) : Targets(n) # { }

\* C29: on a node sequence in which some relation references a node that
\* is not in the sequence, deriveRelations completes without error, adds no
\* key for the missing node (the keys of every map are the nodes of the
\* sequence), records nothing for that edge and records every edge whose
\* target is in the sequence.
C29_MissingTargetsSkipped ==
  (Len(log) >= 3 /\ ~Closed) =>
    /\ ~relations.threw
    /\ \A k \in 1..Len(Derivations) :
         /\ DOMAIN relations.maps[Derivations[k].map] = Range(PLAN)
         /\ \A a \in Range(PLAN), b \in Range(PLAN) :
              Count(relations.maps[Derivations[k].map][b], a) =
                IF heap[a].kind = Derivations[k].kind
                THEN Occurrences(a, Derivations[k], b)
                ELSE 0

\* The pairs (A, B) of milestone ids such that A lists B in
\* dependsOnMilestones and both are included in variant v with a duration
\* above 0.
Active(id, v) == ConfigById(id, v).included /\ ConfigById(id, v).durationMonths > 0

DependsIn(v) ==
  { p \in MilestoneIds \X MilestoneIds :
      /\ Active(p[1], v) /\ Active(p[2], v)
      /\ \E i \in 1..Len(MilestoneEntries) :
           MilestoneEntries[i].id = p[1] /\ p[2] \in Range(DependencyIds(i)) }

\* P and the pairs that one more edge of R reaches from it.
Extend(P, R) ==
  P \cup { x \in MilestoneIds \X MilestoneIds :
             \E y \in MilestoneIds : << x[1], y >> \in P /\ << y, x[2] >> \in R }

\* The pairs joined by a path of at most n + 1 edges of R.
RECURSIVE Paths(_, _)
Paths(R, n) == IF n = 0 THEN R ELSE Extend(Paths(R, n - 1), R)

Cyclic(R) == \E x \in MilestoneIds : << x, x >> \in Paths(R, Cardinality(MilestoneIds))

\* The feasibility and timing errors of variant v.
OrderingErrors(v) ==
  { k \in 1..Len(validation.errors) :
      /\ validation.errors[k].text \in { "included but depends on skipped milestone",
                                         "starts before dependency ends" }
      /\ validation.errors[k].p1 = v }

\* C30: when validatePlan reports no dependency-feasibility error and no
\* timing-consistency error for a variant, the dependsOnMilestones relation
\* between the milestones that are included in the variant and run longer
\* than 0 months has no cycle; in particular no such milestone lists itself.
C30_NoCycleAmongScheduled ==
  Validated =>
    \A k \in 1..Len(Variants) :
      OrderingErrors(Variants[k]) = { } => ~Cyclic(DependsIn(Variants[k]))

\* Two milestones of one month each, "b" after "a" and depending on it: no
\* ordering error and no cycle.
C30_Witness ==
  /\ Validated
  /\ OrderingErrors("expected") = { }
  /\ DependsIn("expected") # { }
  /\ ~Cyclic(DependsIn("expected"))

\* Two milestones that depend on each other and run over no time at all:
\* no ordering error, and a cycle outside the milestones that run longer.
C30_WitnessZeroDuration ==
  /\ Validated
  /\ OrderingErrors("expected") = { }
  /\ Len(MilestoneEntries) = 2
  /\ "b" \in Range(DependencyIds(1)) /\ "a" \in Range(DependencyIds(2))
  /\ DependsIn("expected") = { }

\* A milestone of one month that lists itself: a timing error.
C30_WitnessSelf ==
  /\ Validated
  /\ \E x \in MilestoneIds : << x, x >> \in DependsIn("expected")
  /\ OrderingErrors("expected") # { }

====
